---- MODULE Spec2Model ----
(***************************************************************************)
(* A model of elusive's assembly engine: the in-memory virtual filesystem  *)
(* (crates/elusive/src/vfs.rs), the cpio newc serializer                   *)
(* (crates/elusive/src/newc.rs) and the builder                            *)
(* (crates/elusive/src/initramfs.rs) with the ELF, kernel module and       *)
(* systemd unit resolvers it calls (elf.rs, kmod.rs, systemd.rs), the      *)
(* microcode bundle (microcode.rs) and the command line that writes the    *)
(* archive out (cli.rs, io.rs, encoder.rs).                                *)
(*                                                                         *)
(* A path is the sequence of its normal components below the root: the     *)
(* Rust Path is compared (Eq, Ord) component by component, so the          *)
(* BTreeMap<PathBuf, Entry> is keyed by exactly this sequence.  A          *)
(* component is a sequence of bytes.  The root / is the empty sequence; a  *)
(* relative path, where the builder meets one, starts with an empty        *)
(* component.                                                              *)
(*                                                                         *)
(* A u64 is four 16-bit limbs, most significant first, so that values at   *)
(* and above 2^32 exist in the model.  An Option is a sequence of length   *)
(* 0 (None) or 1 (Some).                                                   *)
(***************************************************************************)
EXTENDS Integers, Sequences, FiniteSets, TLC

VARIABLES
    vfs,        \* Vfs.inner: the map from path to entry
    last,       \* the Vfs call made by the last step, with its result
    vfsB,       \* a second Vfs, given the same create_entry calls in another order
    handed,     \* the create_entry calls <<path, entry>> in the order the first Vfs got them
    orderB,     \* the indices into handed in the order the second Vfs got them
    ser,        \* Some(NewcSerializer) of the first Vfs once Archive::serialize ran
    serB,       \* the same for the second Vfs
    host,       \* what the builder finds on the host: DT_NEEDED names, modinfo, unit files
    stack,      \* the builder's call stack: one frame per running recursive call
    call,       \* the builder operation made last, with its argument and its result
    inserted,   \* per host path, how often add_elf read it and inserted it
    bundle,     \* the flags amd and intel of the MicrocodeBundle
    conf,       \* a running from_config: its configuration and the calls still to make
    run         \* a run of the command line: its arguments, its position, the output

vars ==
    <<vfs, last, vfsB, handed, orderB, ser, serB, host, stack, call, inserted,
      bundle, conf, run>>

----------------------------------------------------------------------------
(* vfs.rs: constants *)

DIRECTORY_MODE == 16877
FILE_MODE == 33188
SYMLINK_MODE == 40960

\* The mode of an executable on the host, rwxr-xr-x (0o100755): what
\* std::fs::Metadata::mode() reports for /usr/bin/ls.
HostExecMode == 33261

(* u64 values as 16-bit limbs *)
Limb == 2^16
Zero64 == <<0, 0, 0, 0>>
ToU64(n) == <<0, 0, n \div Limb, n % Limb>>
\* 2^32: the first value that does not fit eight hex digits.
Pow32 == <<0, 1, 0, 0>>

None == <<>>
Some(x) == <<x>>

(* Metadata::default() *)
DefaultMetadata ==
    [mode |-> 0, uid |-> Zero64, gid |-> Zero64, nlink |-> Zero64,
     mtime |-> Zero64, dev_major |-> Zero64, dev_minor |-> Zero64,
     rdev_major |-> Zero64, rdev_minor |-> Zero64]

directory ==
    [metadata |-> [DefaultMetadata EXCEPT !.mode = DIRECTORY_MODE], data |-> None]

file(data) ==
    [metadata |-> [DefaultMetadata EXCEPT !.mode = FILE_MODE], data |-> Some(data)]

symlink(target) ==
    [metadata |-> [DefaultMetadata EXCEPT !.mode = SYMLINK_MODE], data |-> Some(target)]

\* Entry::try_from(File) of a host file that is not a directory: the mode and
\* the mtime are the host's, rdev is 0 for a regular file, the payload is read.
try_from(mode, mtime, data) ==
    [metadata |-> [DefaultMetadata EXCEPT !.mode = mode, !.mtime = mtime],
     data |-> Some(data)]

is_dir(entry) == entry.metadata.mode = DIRECTORY_MODE
is_file(entry) == entry.metadata.mode = FILE_MODE
is_symlink(entry) == entry.metadata.mode = SYMLINK_MODE

----------------------------------------------------------------------------
(* Paths *)

Root == <<>>

\* Path::parent: None for the root.
parent(p) == IF p = Root THEN None ELSE Some(SubSeq(p, 1, Len(p) - 1))

\* Path::ancestors, as a set: the path itself and every prefix down to the root.
ancestors(p) == {SubSeq(p, 1, k) : k \in 0..Len(p)}

----------------------------------------------------------------------------
(* Vfs *)

\* Vfs::new
VfsNew == [q \in {Root} |-> directory]

contains(v, p) == p \in DOMAIN v
contains_dir(v, p) == p \in DOMAIN v /\ is_dir(v[p])
contains_file(v, p) == p \in DOMAIN v /\ is_file(v[p])

\* BTreeMap::insert
Insert(v, p, e) == [q \in DOMAIN v \cup {p} |-> IF q = p THEN e ELSE v[q]]

Ok(v) == [vfs |-> v, res |-> "Ok"]
Err(v, kind) == [vfs |-> v, res |-> kind]

\* A create_dir that answers FileExists for a directory that is already
\* there, as mkdir(2) does.
create_dir_eexist(v, p) ==
    IF parent(p) # None /\ ~contains(v, parent(p)[1])
    THEN Err(v, "NoSuchFileOrDirectory")
    ELSE IF parent(p) # None /\ contains_file(v, parent(p)[1])
    THEN Err(v, "NotADirectory")
    ELSE IF contains(v, p) /\ is_symlink(v[p])
    THEN Ok(v)
    ELSE IF contains(v, p) /\ (is_file(v[p]) \/ is_dir(v[p]))
    THEN Err(v, "FileExists")
    ELSE Ok(Insert(v, p, directory))

\* A create_dir without the check that the parent is not a file.
create_dir_nofilecheck(v, p) ==
    IF parent(p) # None /\ ~contains(v, parent(p)[1])
    THEN Err(v, "NoSuchFileOrDirectory")
    ELSE IF contains(v, p) /\ (is_dir(v[p]) \/ is_symlink(v[p]))
    THEN Ok(v)
    ELSE IF contains(v, p) /\ is_file(v[p])
    THEN Err(v, "FileExists")
    ELSE Ok(Insert(v, p, directory))

\* Vfs::create_dir
create_dir(v, p) ==
    IF parent(p) # None /\ ~contains(v, parent(p)[1])
    THEN Err(v, "NoSuchFileOrDirectory")
    ELSE IF parent(p) # None /\ contains_file(v, parent(p)[1])
    THEN Err(v, "NotADirectory")
    ELSE IF contains(v, p) /\ (is_dir(v[p]) \/ is_symlink(v[p]))
    THEN Ok(v)
    ELSE IF contains(v, p) /\ is_file(v[p])
    THEN Err(v, "FileExists")
    ELSE Ok(Insert(v, p, directory))

\* The loop of create_dir_all: create_dir on the prefixes of p of length
\* k, k+1, .., Len(p), stopping at the first error (the ? operator).
RECURSIVE create_dirs(_, _, _)
create_dirs(v, p, k) ==
    IF k > Len(p)
    THEN Ok(v)
    ELSE LET r == create_dir(v, SubSeq(p, 1, k))
         IN  IF r.res # "Ok" THEN r ELSE create_dirs(r.vfs, p, k + 1)

\* Vfs::create_dir_all
create_dir_all(v, p) ==
    IF contains_dir(v, p) THEN Ok(v) ELSE create_dirs(v, p, 0)

\* A create_entry that overwrites whatever is there.
create_entry_overwrite(v, p, e) == Ok(Insert(v, p, e))

\* A create_entry that, like create_dir, refuses a path whose parent is absent.
create_entry_parentcheck(v, p, e) ==
    IF parent(p) # None /\ ~contains(v, parent(p)[1])
    THEN Err(v, "NoSuchFileOrDirectory")
    ELSE IF contains_file(v, p)
    THEN Err(v, "FileExists")
    ELSE Ok(Insert(v, p, e))

\* Vfs::create_entry
create_entry(v, p, e) ==
    IF contains_file(v, p)
    THEN Err(v, "FileExists")
    ELSE Ok(Insert(v, p, e))

----------------------------------------------------------------------------
(* The paths and entries the calls are drawn from *)

CompA == <<97>>                                   \* "a"
CompB == <<98>>                                   \* "b"
CompADashB == <<97, 45, 98>>                      \* "a-b"
\* newc.rs: TRAILER
TRAILER == <<84, 82, 65, 73, 76, 69, 82, 33, 33, 33>>   \* "TRAILER!!!"

\* /, /a, /a/b, /b
VfsPaths == {Root, <<CompA>>, <<CompA, CompB>>, <<CompB>>}

\* A host executable as Entry::try_from reads it.
HostExec == try_from(HostExecMode, ToU64(1000), <<35, 33>>)

VfsEntries ==
    {directory, file(<<120>>), file(<<121>>), symlink(<<98>>), HostExec}

----------------------------------------------------------------------------
(* The state after construction *)

\* A host with no ELF file, no kernel module and no unit file.
NoHost ==
    [fs |-> <<>>, needed |-> <<>>, release |-> <<>>, lookup |-> <<>>,
     frompath |-> <<>>, modinfo |-> <<>>, decoded |-> <<>>, units |-> <<>>]

NoBuilderCall == [op |-> "new", arg |-> None, res |-> "Ok"]

\* No MicrocodeBundle, no from_config and no run of the command line.
NoBundle == [amd |-> FALSE, intel |-> FALSE]
NoConf == [config |-> None, todo |-> <<>>, res |-> "Ok"]
NoRun == [pc |-> "none"]

NoCall == [op |-> "new", path |-> Root, entry |-> None, res |-> "Ok", rep |-> "first"]

Init ==
    /\ vfs = VfsNew
    /\ last = NoCall
    /\ vfsB = VfsNew
    /\ handed = <<>>
    /\ orderB = <<>>
    /\ ser = None
    /\ serB = None
    /\ host = NoHost
    /\ stack = <<>>
    /\ call = NoBuilderCall
    /\ inserted = <<>>
    /\ bundle = NoBundle
    /\ conf = NoConf
    /\ run = NoRun

\* Whether the call (op, p) repeats the call of the step before, and how that
\* one ended.
Rep(op, p) ==
    IF last.op = op /\ last.path = p
    THEN (IF last.res = "Ok" THEN "afterOk" ELSE "afterErr")
    ELSE "first"

Call(op, p, e, r) ==
    /\ vfs' = r.vfs
    /\ last' = [op |-> op, path |-> p, entry |-> e, res |-> r.res, rep |-> Rep(op, p)]

----------------------------------------------------------------------------
(* The Vfs under any sequence of calls *)

CreateDir ==
    \E p \in VfsPaths :
        /\ Call("create_dir", p, None, create_dir(vfs, p))
        /\ UNCHANGED <<vfsB, handed, orderB, ser, serB, host, bundle, conf, run, stack,
                       call, inserted>>

CreateDirAll ==
    \E p \in VfsPaths :
        /\ Call("create_dir_all", p, None, create_dir_all(vfs, p))
        /\ UNCHANGED <<vfsB, handed, orderB, ser, serB, host, bundle, conf, run, stack,
                       call, inserted>>

CreateEntry ==
    \E p \in VfsPaths, e \in VfsEntries :
        /\ Call("create_entry", p, Some(e), create_entry(vfs, p, e))
        /\ UNCHANGED <<vfsB, handed, orderB, ser, serB, host, bundle, conf, run, stack,
                       call, inserted>>

NextVfs == CreateDir \/ CreateDirAll \/ CreateEntry

SpecVfs == Init /\ [][NextVfs]_vars

----------------------------------------------------------------------------
(* The Vfs contract *)

IsVfsCall(op) == last'.op = op

\* A path other than p keeps its entry, and no path but p appears.
OthersKept(v, w, p) ==
    /\ DOMAIN w \ {p} = DOMAIN v \ {p}
    /\ \A q \in DOMAIN v \ {p} : w[q] = v[q]

\* C1: in every state reachable by create_dir, create_dir_all and
\* create_entry calls with any paths and entries, the root / is present and
\* its entry is a directory.
C1_RootIsDirectory == contains(vfs, Root) /\ is_dir(vfs[Root])

\* C2: create_entry(p, e) returns FileExists and leaves the Vfs unchanged
\* when p is present as a file; in every other case it succeeds, the Vfs
\* then maps p to e, and every other path keeps its entry.
C2_CreateEntryContract ==
    [][IsVfsCall("create_entry") =>
        LET p == last'.path
            e == last'.entry[1]
        IN  IF contains(vfs, p) /\ is_file(vfs[p])
            THEN last'.res = "FileExists" /\ vfs' = vfs
            ELSE /\ last'.res = "Ok"
                 /\ contains(vfs', p) /\ vfs'[p] = e
                 /\ OthersKept(vfs, vfs', p)]_vars

\* C2's case: a second file at the path of a first one was refused.
C2_Witness ==
    /\ last.op = "create_entry" /\ last.res = "FileExists"
    /\ is_file(last.entry[1]) /\ vfs[last.path] # last.entry[1]

ParentAbsent(v, p) == parent(p) # None /\ ~contains(v, parent(p)[1])
ParentIsFile(v, p) == parent(p) # None /\ contains_file(v, parent(p)[1])

\* C3 as stated: create_dir(p) returns NoSuchFileOrDirectory when parent(p)
\* is absent, NotADirectory when parent(p) is a file, FileExists when p is a
\* file, each time leaving the Vfs unchanged; when none applies and p is
\* absent it inserts a directory at p and changes nothing else.
C3_CreateDirAsStated ==
    [][IsVfsCall("create_dir") =>
        LET p == last'.path
        IN  /\ ParentAbsent(vfs, p) =>
                last'.res = "NoSuchFileOrDirectory" /\ vfs' = vfs
            /\ ParentIsFile(vfs, p) =>
                last'.res = "NotADirectory" /\ vfs' = vfs
            /\ contains_file(vfs, p) =>
                last'.res = "FileExists" /\ vfs' = vfs
            /\ (~ParentAbsent(vfs, p) /\ ~ParentIsFile(vfs, p)
                    /\ ~contains(vfs, p)) =>
                /\ last'.res = "Ok"
                /\ contains(vfs', p) /\ vfs'[p] = directory
                /\ OthersKept(vfs, vfs', p)]_vars

\* C3 amended: the two checks of the parent come first, so FileExists is the
\* answer for a file at p only when parent(p) is present and not a file; the
\* rest as stated.
C3_CreateDirContract ==
    [][IsVfsCall("create_dir") =>
        LET p == last'.path
        IN  /\ ParentAbsent(vfs, p) =>
                last'.res = "NoSuchFileOrDirectory" /\ vfs' = vfs
            /\ ParentIsFile(vfs, p) =>
                last'.res = "NotADirectory" /\ vfs' = vfs
            /\ (~ParentAbsent(vfs, p) /\ ~ParentIsFile(vfs, p)
                    /\ contains_file(vfs, p)) =>
                last'.res = "FileExists" /\ vfs' = vfs
            /\ (~ParentAbsent(vfs, p) /\ ~ParentIsFile(vfs, p)
                    /\ ~contains(vfs, p)) =>
                /\ last'.res = "Ok"
                /\ contains(vfs', p) /\ vfs'[p] = directory
                /\ OthersKept(vfs, vfs', p)]_vars

\* C3's case: create_dir of a child of a file was refused with NotADirectory
\* although the child itself is present as a file.
C3_Witness ==
    /\ last.op = "create_dir" /\ last.res = "NotADirectory"
    /\ contains_file(vfs, last.path)

\* C4: in a run of create_dir(p) calls only the first successful one can
\* change the Vfs: a failed call changes nothing, and a call that follows a
\* successful create_dir(p) returns success and leaves the Vfs exactly as it
\* was, also when p is a symlink.
C4_CreateDirIdempotent ==
    [][IsVfsCall("create_dir") =>
        /\ last'.res # "Ok" => vfs' = vfs
        /\ last'.rep = "afterOk" => last'.res = "Ok" /\ vfs' = vfs]_vars

\* C4's case: create_dir(p) was repeated after a success, with p a symlink.
C4_Witness ==
    /\ last.op = "create_dir" /\ last.rep = "afterOk" /\ last.res = "Ok"
    /\ contains(vfs, last.path) /\ is_symlink(vfs[last.path])

\* C5: after a successful create_dir_all(p), p and every ancestor of p are
\* present; each of them that was absent is now a directory, and every entry
\* that was present before the call is unchanged.
C5_CreateDirAllAsStated ==
    [][(IsVfsCall("create_dir_all") /\ last'.res = "Ok") =>
        /\ \A q \in ancestors(last'.path) :
            /\ contains(vfs', q)
            /\ ~contains(vfs, q) => vfs'[q] = directory
        /\ \A q \in DOMAIN vfs : contains(vfs', q) /\ vfs'[q] = vfs[q]]_vars

----------------------------------------------------------------------------
(* Path order *)

\* Ord for OsStr: the bytes, lexicographically.
BytesLess(a, b) ==
    \E k \in 1..Len(b) :
        /\ k <= Len(a) + 1
        /\ \A j \in 1..(k - 1) : a[j] = b[j]
        /\ (k = Len(a) + 1 \/ a[k] < b[k])

\* The bytes of an absolute path: a / before every component.
RECURSIVE PathBytes(_)
PathBytes(p) ==
    IF p = Root THEN <<47>>
    ELSE IF Len(p) = 1 THEN <<47>> \o p[1]
    ELSE PathBytes(SubSeq(p, 1, Len(p) - 1)) \o <<47>> \o p[Len(p)]

\* An order on the bytes of the whole path, the separator a byte like any other.
PathLessBytes(p, q) == BytesLess(PathBytes(p), PathBytes(q))

\* Ord for Path: component by component, each component by its bytes.  It is
\* the order of the BTreeMap's keys and of Archive::serialize's sort_by.
PathLess(p, q) ==
    \E k \in 1..Len(q) :
        /\ k <= Len(p) + 1
        /\ \A j \in 1..(k - 1) : p[j] = q[j]
        /\ (k = Len(p) + 1 \/ BytesLess(p[k], q[k]))

\* Vfs::into_iter: the BTreeMap's pairs in ascending order of their keys.
RECURSIVE InOrder(_, _)
InOrder(v, S) ==
    IF S = {} THEN <<>>
    ELSE LET m == CHOOSE x \in S : \A y \in S \ {x} : PathLess(x, y)
         IN  <<<<m, v[m]>>>> \o InOrder(v, S \ {m})

into_iter(v) == InOrder(v, DOMAIN v)

\* Archive::from
ArchiveFrom(v) == into_iter(v)

\* slice::sort_by(|l, r| l.0.cmp(&r.0)): a stable insertion sort.
RECURSIVE InsertSorted(_, _)
InsertSorted(sorted, x) ==
    IF sorted = <<>> THEN <<x>>
    ELSE IF PathLess(x[1], sorted[1][1]) THEN <<x>> \o sorted
    ELSE <<sorted[1]>> \o InsertSorted(Tail(sorted), x)

RECURSIVE sort_by(_)
sort_by(entries) ==
    IF entries = <<>> THEN <<>>
    ELSE InsertSorted(sort_by(SubSeq(entries, 1, Len(entries) - 1)),
                      entries[Len(entries)])

----------------------------------------------------------------------------
(* newc.rs *)

MAGIC == <<48, 55, 48, 55, 48, 49>>               \* "070701"
INO_OFFSET == 1337

\* The four hex digits of a 16-bit limb.
LimbDigits(n) == <<n \div 4096, (n \div 256) % 16, (n \div 16) % 16, n % 16>>

\* The sixteen hex digits of a u64.
Digits(v) ==
    LimbDigits(v[1]) \o LimbDigits(v[2]) \o LimbDigits(v[3]) \o LimbDigits(v[4])

RECURSIVE StripZeros(_)
StripZeros(d) == IF Len(d) > 1 /\ d[1] = 0 THEN StripZeros(Tail(d)) ELSE d

RECURSIVE PadZeros(_, _)
PadZeros(d, width) == IF Len(d) < width THEN PadZeros(<<0>> \o d, width) ELSE d

HexChar(d) == IF d < 10 THEN 48 + d ELSE 87 + d

\* write!(buf, "{v:08x}"): lowercase hex, padded with zeros to a width of at
\* least eight; a value that needs more digits gets them.
Fmt08x(v) ==
    LET d == PadZeros(StripZeros(Digits(v)), 8)
    IN  [i \in 1..Len(d) |-> HexChar(d[i])]

Zeros(n) == [i \in 1..n |-> 0]

\* A pad_buf that appends rem bytes instead of 4 - rem.
pad_buf_rem(buf) ==
    LET rem == Len(buf) % 4
    IN  IF rem # 0 THEN buf \o Zeros(rem) ELSE buf

\* pad_buf
pad_buf(buf) ==
    LET rem == Len(buf) % 4
    IN  IF rem # 0 THEN buf \o Zeros(4 - rem) ELSE buf

\* The path serialize_entry is called with: a key of the Vfs, which is
\* absolute, or Path::new(TRAILER), which is relative.
AbsPath(p) == [root |-> TRUE, comps |-> p]
TrailerPath == [root |-> FALSE, comps |-> <<TRAILER>>]

\* path.strip_prefix("/"), as bytes: the components joined by /.
RECURSIVE Joined(_)
Joined(comps) ==
    IF comps = <<>> THEN <<>>
    ELSE IF Len(comps) = 1 THEN comps[1]
    ELSE Joined(SubSeq(comps, 1, Len(comps) - 1)) \o <<47>> \o comps[Len(comps)]

\* NewcSerializer::new.  marks is a history of where serialize_entry wrote:
\* per entry, the offsets at which its header, its filename, the pad after
\* the filename, its payload, the pad after the payload and the next entry
\* start, and whether it has a payload.
NewcSerializerNew == [count |-> 0, buf |-> <<>>, marks |-> <<>>]

\* NewcSerializer::serialize_entry.  (No modelled name holds a NUL byte, so
\* CString::new succeeds.)
serialize_entry(s, path, entry) ==
    IF path = AbsPath(Root)
    THEN s
    ELSE
    LET m == entry.metadata
        name == IF path = TrailerPath THEN TRAILER ELSE Joined(path.comps)
        filename == name \o <<0>>
        ino == s.count + INO_OFFSET
        file_size == IF entry.data = None THEN 0 ELSE Len(entry.data[1])
        header ==
            MAGIC \o Fmt08x(ToU64(ino)) \o Fmt08x(ToU64(m.mode)) \o Fmt08x(m.uid)
            \o Fmt08x(m.gid) \o Fmt08x(m.nlink) \o Fmt08x(m.mtime)
            \o Fmt08x(ToU64(file_size)) \o Fmt08x(m.dev_major)
            \o Fmt08x(m.dev_minor) \o Fmt08x(m.rdev_major)
            \o Fmt08x(m.rdev_minor) \o Fmt08x(ToU64(Len(filename)))
            \o Fmt08x(ToU64(0))
        b1 == s.buf \o header
        b2 == b1 \o filename
        b3 == pad_buf(b2)
        b4 == IF entry.data = None THEN b3 ELSE b3 \o entry.data[1]
        b5 == IF entry.data = None THEN b3 ELSE pad_buf(b4)
    IN  [count |-> s.count + 1,
         buf |-> b5,
         marks |-> Append(s.marks,
            [hdr |-> Len(s.buf), name |-> Len(b1), namepad |-> Len(b2),
             payload |-> Len(b3), datapad |-> Len(b4), end |-> Len(b5),
             has_data |-> entry.data # None])]

RECURSIVE SerializeAll(_, _)
SerializeAll(s, entries) ==
    IF entries = <<>> THEN s
    ELSE SerializeAll(serialize_entry(s, AbsPath(entries[1][1]), entries[1][2]),
                      Tail(entries))

\* Archive::serialize
serialize(entries) ==
    serialize_entry(SerializeAll(NewcSerializerNew, sort_by(entries)),
                    TrailerPath, directory)

----------------------------------------------------------------------------
(* A Vfs built by any calls, then frozen and serialized *)

\* /, /a, /a/b, /a-b, /TRAILER!!!
NewcPaths ==
    {Root, <<CompA>>, <<CompA, CompB>>, <<CompADashB>>, <<TRAILER>>}

\* A host file whose mtime is 2^32 seconds after the epoch (February 2106).
HostFuture == try_from(HostExecMode, Pow32, <<1, 2, 3>>)

\* directory; file "data"; symlink to "b"; host files
NewcEntries ==
    {directory, file(<<100, 97, 116, 97>>), symlink(<<98>>), HostExec, HostFuture}

BuildEntry ==
    \E p \in NewcPaths, e \in NewcEntries :
        /\ ser = None
        /\ vfs' = create_entry(vfs, p, e).vfs
        /\ UNCHANGED <<last, vfsB, handed, orderB, ser, serB, host, bundle, conf, run,
                       stack, call, inserted>>

BuildDirAll ==
    \E p \in NewcPaths :
        /\ ser = None
        /\ vfs' = create_dir_all(vfs, p).vfs
        /\ UNCHANGED <<last, vfsB, handed, orderB, ser, serB, host, bundle, conf, run,
                       stack, call, inserted>>

\* into_archive().serialize(): the Vfs is moved into the archive.
Serialize ==
    /\ ser = None
    /\ ser' = Some(serialize(ArchiveFrom(vfs)))
    /\ UNCHANGED <<vfs, last, vfsB, handed, orderB, serB, host, bundle, conf, run,
                   stack, call, inserted>>

NextNewc == BuildEntry \/ BuildDirAll \/ Serialize

SpecNewc == Init /\ [][NextNewc]_vars

----------------------------------------------------------------------------
(* Two Vfs given the same create_entry calls in two orders *)

MaxOps == 3

\* /a, /a/b
OrderPaths == {<<CompA>>, <<CompA, CompB>>}

OrderEntries == {directory, file(<<100, 97, 116, 97>>), symlink(<<98>>)}

Range(f) == {f[i] : i \in DOMAIN f}

\* The next call of the collection goes to the first Vfs.
Hand ==
    \E p \in OrderPaths, e \in OrderEntries :
        /\ ser = None
        /\ Len(handed) < MaxOps
        /\ vfs' = create_entry(vfs, p, e).vfs
        /\ handed' = Append(handed, <<p, e>>)
        /\ UNCHANGED <<last, vfsB, orderB, ser, serB, host, bundle, conf, run, stack,
                       call, inserted>>

\* The second Vfs gets any of the calls it has not had yet.
ApplyB ==
    \E i \in DOMAIN handed \ Range(orderB) :
        /\ ser = None
        /\ vfsB' = create_entry(vfsB, handed[i][1], handed[i][2]).vfs
        /\ orderB' = Append(orderB, i)
        /\ UNCHANGED <<vfs, last, handed, ser, serB, host, bundle, conf, run, stack,
                       call, inserted>>

\* Both have had every call: serialize both.
SerializeBoth ==
    /\ ser = None
    /\ Len(orderB) = Len(handed)
    /\ ser' = Some(serialize(ArchiveFrom(vfs)))
    /\ serB' = Some(serialize(ArchiveFrom(vfsB)))
    /\ UNCHANGED <<vfs, last, vfsB, handed, orderB, host, bundle, conf, run, stack,
                   call, inserted>>

NextOrder == Hand \/ ApplyB \/ SerializeBoth

SpecOrder == Init /\ [][NextOrder]_vars

----------------------------------------------------------------------------
(* The serialized stream *)

\* The filename of the k-th emitted entry, without its NUL.
Name(s, k) == SubSeq(s.buf, s.marks[k].name + 1, s.marks[k].namepad - 1)

\* The i-th eight-byte field (from 0) of the k-th emitted entry's header.
Field(s, k, i) ==
    SubSeq(s.buf, s.marks[k].hdr + 6 + 8 * i + 1, s.marks[k].hdr + 6 + 8 * i + 8)

HexDigits == {48, 49, 50, 51, 52, 53, 54, 55, 56, 57, 97, 98, 99, 100, 101, 102}

HexDigitVal(c) == IF c < 58 THEN c - 48 ELSE c - 87

RECURSIVE HexVal(_)
HexVal(chars) ==
    IF chars = <<>> THEN 0
    ELSE 16 * HexVal(SubSeq(chars, 1, Len(chars) - 1)) + HexDigitVal(chars[Len(chars)])

\* A filename split at its / bytes.
RECURSIVE Split(_)
Split(bytes) ==
    IF \A i \in 1..Len(bytes) : bytes[i] # 47
    THEN <<bytes>>
    ELSE LET k == CHOOSE i \in 1..Len(bytes) :
                    bytes[i] = 47 /\ \A j \in (i + 1)..Len(bytes) : bytes[j] # 47
         IN  Split(SubSeq(bytes, 1, k - 1)) \o <<SubSeq(bytes, k + 1, Len(bytes))>>

\* The order of two paths by their components, each compared by its bytes.
ByComponents(p, q) ==
    \E k \in 1..Len(q) :
        /\ k <= Len(p) + 1
        /\ \A j \in 1..(k - 1) : p[j] = q[j]
        /\ (k = Len(p) + 1 \/ BytesLess(p[k], q[k]))

\* The stream of a Vfs that holds the root only: one TRAILER!!! entry with ino
\* 0x539, mode 0x41ed and a name size of 0xb, then three bytes of padding.
TrailerOnly ==
    <<
      48, 55, 48, 55, 48, 49, 48, 48, 48, 48, 48, 53, 51, 57, 48, 48,
      48, 48, 52, 49, 101, 100, 48, 48, 48, 48, 48, 48, 48, 48, 48, 48,
      48, 48, 48, 48, 48, 48, 48, 48, 48, 48, 48, 48, 48, 48, 48, 48,
      48, 48, 48, 48, 48, 48, 48, 48, 48, 48, 48, 48, 48, 48, 48, 48,
      48, 48, 48, 48, 48, 48, 48, 48, 48, 48, 48, 48, 48, 48, 48, 48,
      48, 48, 48, 48, 48, 48, 48, 48, 48, 48, 48, 48, 48, 48, 48, 48,
      48, 48, 48, 48, 48, 98, 48, 48, 48, 48, 48, 48, 48, 48, 84, 82,
      65, 73, 76, 69, 82, 33, 33, 33, 0, 0, 0, 0>>

Consistent(calls) ==
    \A a \in Range(calls), b \in Range(calls) : a[1] = b[1] => a[2] = b[2]

\* C6 as stated: two Vfs given the same create_entry calls in any two orders
\* serialize to the same bytes.
C6_AnyOrderAsStated == ser # None => ser[1].buf = serB[1].buf

\* C6 amended: they do when no two calls of the collection give different
\* entries for the same path; and two Vfs with the same content serialize to
\* the same bytes.
C6_AnyOrder ==
    ser # None =>
        /\ Consistent(handed) => ser[1].buf = serB[1].buf
        /\ vfs = vfsB => ser[1].buf = serB[1].buf

\* C6's case: at least two calls on different paths, given to the second Vfs
\* in another order than to the first, and both serialized.
C6_Witness ==
    /\ ser # None /\ Consistent(handed) /\ Len(handed) >= 2
    /\ handed[1][1] # handed[2][1]
    /\ orderB[1] # 1
    /\ Len(ser[1].marks) >= 3

C8_InoAndTrailerAsStated ==
    ser # None =>
        LET s == ser[1]
            n == Len(s.marks) - 1
        IN  /\ n = Cardinality(DOMAIN vfs \ {Root})
            /\ \A k \in 1..(n + 1) : HexVal(Field(s, k, 0)) = 1337 + (k - 1)
            /\ Cardinality({k \in 1..(n + 1) : Name(s, k) = TRAILER}) = 1
            /\ Name(s, n + 1) = TRAILER
            /\ HexVal(Field(s, n + 1, 1)) = DIRECTORY_MODE
            /\ DOMAIN vfs = {Root} => s.buf = TrailerOnly

\* C9: every numeric header field is exactly eight lowercase hex digits, so
\* every header is 110 bytes.
C9_EightDigitsAsStated ==
    ser # None =>
        LET s == ser[1]
        IN  \A k \in 1..Len(s.marks) :
                /\ s.marks[k].name - s.marks[k].hdr = 110
                /\ \A i \in (s.marks[k].hdr + 7)..s.marks[k].name :
                        s.buf[i] \in HexDigits

\* C10: every header and every payload starts at a multiple of 4 and so
\* does the end of the stream; each pad is 0 to 3 zero bytes, after the
\* NUL-terminated filename and after a present payload.
C10_Aligned ==
    ser # None =>
        LET s == ser[1]
            n == Len(s.marks)
        IN  /\ Len(s.buf) % 4 = 0
            /\ s.marks[1].hdr = 0 /\ s.marks[n].end = Len(s.buf)
            /\ \A k \in 1..n :
                LET m == s.marks[k]
                IN  /\ m.hdr % 4 = 0
                    /\ k < n => s.marks[k + 1].hdr = m.end
                    /\ s.buf[m.namepad] = 0
                    /\ m.payload % 4 = 0
                    /\ m.payload - m.namepad \in 0..3
                    /\ \A i \in (m.namepad + 1)..m.payload : s.buf[i] = 0
                    /\ m.end - m.datapad \in 0..3
                    /\ \A i \in (m.datapad + 1)..m.end : s.buf[i] = 0
                    /\ ~m.has_data => m.end = m.payload

\* C10's case: an entry whose filename and whose payload both needed a pad.
C10_Witness ==
    /\ ser # None
    /\ \E k \in 1..Len(ser[1].marks) :
        LET m == ser[1].marks[k]
        IN  m.has_data /\ m.payload > m.namepad /\ m.end > m.datapad

----------------------------------------------------------------------------
(* Reading the stream back *)

\* An eight-digit hex field as a u64.
Hex8(chars) == <<0, 0, HexVal(SubSeq(chars, 1, 4)), HexVal(SubSeq(chars, 5, 8))>>

\* A size field as a number; -1 when it is larger than any stream here.
SizeOf(v) == IF v[3] # 0 THEN -1 ELSE v[4]

Align4(n) == IF n % 4 = 0 THEN n ELSE n + (4 - (n % 4))

\* A newc reader: a 110-byte header of the magic and thirteen eight-digit hex
\* fields, the name of namesize bytes with its closing NUL, a pad to a
\* multiple of 4, the payload of filesize bytes, a pad to a multiple of 4;
\* it stops at the entry named TRAILER!!!.  ok is FALSE when the stream is
\* not of that form.
RECURSIVE ParseNewc(_, _, _)
ParseNewc(buf, pos, acc) ==
    IF pos + 110 > Len(buf)
    THEN [ok |-> FALSE, entries |-> acc]
    ELSE
    LET F(i) == SubSeq(buf, pos + 6 + 8 * i + 1, pos + 6 + 8 * i + 8)
        wellformed ==
            /\ SubSeq(buf, pos + 1, pos + 6) = MAGIC
            /\ \A i \in (pos + 7)..(pos + 110) : buf[i] \in HexDigits
        namesize == SizeOf(Hex8(F(11)))
        filesize == SizeOf(Hex8(F(6)))
        nameend == pos + 110 + namesize
        datastart == Align4(nameend)
        dataend == datastart + filesize
    IN  IF ~wellformed \/ namesize < 1 \/ filesize < 0 \/ nameend > Len(buf)
        THEN [ok |-> FALSE, entries |-> acc]
        ELSE IF buf[nameend] # 0 \/ dataend > Len(buf)
        THEN [ok |-> FALSE, entries |-> acc]
        ELSE IF SubSeq(buf, pos + 111, nameend - 1) = TRAILER
        THEN [ok |-> TRUE, entries |-> acc]
        ELSE ParseNewc(buf, Align4(dataend),
                Append(acc,
                    [name |-> SubSeq(buf, pos + 111, nameend - 1),
                     mode |-> Hex8(F(1)), uid |-> Hex8(F(2)), gid |-> Hex8(F(3)),
                     nlink |-> Hex8(F(4)), mtime |-> Hex8(F(5)),
                     dev_major |-> Hex8(F(7)), dev_minor |-> Hex8(F(8)),
                     rdev_major |-> Hex8(F(9)), rdev_minor |-> Hex8(F(10)),
                     payload |-> SubSeq(buf, datastart + 1, dataend)]))

\* What the reader is to find for the Vfs entry e at the path p.
Expected(p, e) ==
    [name |-> Joined(p),
     mode |-> ToU64(e.metadata.mode), uid |-> e.metadata.uid,
     gid |-> e.metadata.gid, nlink |-> e.metadata.nlink,
     mtime |-> e.metadata.mtime,
     dev_major |-> e.metadata.dev_major, dev_minor |-> e.metadata.dev_minor,
     rdev_major |-> e.metadata.rdev_major, rdev_minor |-> e.metadata.rdev_minor,
     payload |-> IF e.data = None THEN <<>> ELSE e.data[1]]

RoundTrips(v, buf) ==
    LET r == ParseNewc(buf, 0, <<>>)
    IN  /\ r.ok
        /\ Len(r.entries) = Cardinality(DOMAIN v \ {Root})
        /\ Range(r.entries) = {Expected(p, v[p]) : p \in DOMAIN v \ {Root}}

\* C11: for every Vfs built by create_dir, create_dir_all and create_entry
\* calls, reading serialize(Vfs) back with a newc reader yields exactly the
\* entries of the Vfs other than /, each with its path without the leading
\* /, its metadata and its payload, and nothing else.
C11_RoundTripAsStated == ser # None => RoundTrips(vfs, ser[1].buf)

\* The same for a Vfs that has no entry at /TRAILER!!! and no metadata value
\* of 2^32 or more.
C11_RoundTripElsewhere ==
    (/\ ser # None
     /\ <<TRAILER>> \notin DOMAIN vfs
     /\ \A p \in DOMAIN vfs : vfs[p].metadata.mtime[2] = 0)
        => RoundTrips(vfs, ser[1].buf)

----------------------------------------------------------------------------
(* initramfs.rs: the builder *)

Dev == <<100, 101, 118>>                          \* "dev"
Etc == <<101, 116, 99>>                           \* "etc"
Proc == <<112, 114, 111, 99>>                     \* "proc"
RootHome == <<114, 111, 111, 116>>                \* "root"
Run == <<114, 117, 110>>                          \* "run"
Sys == <<115, 121, 115>>                          \* "sys"
Tmp == <<116, 109, 112>>                          \* "tmp"
Usr == <<117, 115, 114>>                          \* "usr"
Var == <<118, 97, 114>>                           \* "var"
Bin == <<98, 105, 110>>                           \* "bin"
Lib == <<108, 105, 98>>                           \* "lib"
Lib64 == <<108, 105, 98, 54, 52>>                 \* "lib64"
Sbin == <<115, 98, 105, 110>>                     \* "sbin"
Local == <<108, 111, 99, 97, 108>>                \* "local"
Systemd == <<115, 121, 115, 116, 101, 109, 100>>  \* "systemd"
SystemGenerators == <<115, 121, 115, 116, 101, 109, 45, 103, 101, 110, 101, 114, 97, 116, 111, 114, 115>>\* "system-generators"

\* ROOT_DIRS
ROOT_DIRS ==
    <<<<Dev>>, <<Etc>>, <<Proc>>, <<RootHome>>, <<Run>>, <<Sys>>, <<Tmp>>,
      <<Usr>>, <<Var>>>>

\* ROOT_SYMLINKS: the path and the bytes of the target
ROOT_SYMLINKS ==
    <<<<<<Bin>>, <<117, 115, 114, 47, 98, 105, 110>>>>,
      <<<<Lib>>, <<117, 115, 114, 47, 108, 105, 98>>>>,
      <<<<Lib64>>, <<117, 115, 114, 47, 108, 105, 98>>>>,
      <<<<Sbin>>, <<117, 115, 114, 47, 98, 105, 110>>>>,
      <<<<Usr, Lib64>>, <<108, 105, 98>>>>,
      <<<<Usr, Sbin>>, <<98, 105, 110>>>>,
      <<<<Var, Run>>, <<46, 46, 47, 114, 117, 110>>>>>>

RECURSIVE NewDirs(_, _)
NewDirs(v, dirs) ==
    IF dirs = <<>> THEN v ELSE NewDirs(create_dir(v, Head(dirs)).vfs, Tail(dirs))

RECURSIVE NewSymlinks(_, _)
NewSymlinks(v, links) ==
    IF links = <<>> THEN v
    ELSE NewSymlinks(create_entry(v, Head(links)[1], symlink(Head(links)[2])).vfs,
                     Tail(links))

\* Initramfs::new: the Vfs of a new builder.  (Every create_dir and
\* create_entry of it succeeds: the parents are there and no path is a file.)
InitramfsNew == NewSymlinks(NewDirs(VfsNew, ROOT_DIRS), ROOT_SYMLINKS)

\* search_paths: the first of the directories that holds name on the host.
RECURSIVE search_paths(_, _, _)
search_paths(exists, name, paths) ==
    IF paths = <<>> THEN None
    ELSE IF (Head(paths) \o name) \in exists THEN Some(Head(paths) \o name)
    ELSE search_paths(exists, name, Tail(paths))

\* The first error of a builder operation ends it and every call it is
\* nested in (the ? operator): the stack is dropped.
Running == "Running"

----------------------------------------------------------------------------
(* elf.rs *)

\* BINARY_SEARCH_PATHS
BINARY_SEARCH_PATHS ==
    <<<<Usr, Bin>>, <<Usr, Sbin>>, <<Usr, Local, Bin>>, <<Usr, Local, Sbin>>,
      <<Usr, Lib, Systemd>>, <<Usr, Lib, Systemd, SystemGenerators>>,
      <<Bin>>, <<Sbin>>>>

\* LIBRARY_SEARCH_PATHS
LIBRARY_SEARCH_PATHS ==
    <<<<Usr, Lib>>, <<Usr, Lib64>>, <<Usr, Lib, Systemd>>, <<Lib>>, <<Lib64>>>>

\* Path::exists on the host
\* A symbolic link on the host: h.fs maps its path to a record with the
\* field link, the path it points to.
is_link(h, p) == p \in DOMAIN h.fs /\ "link" \in DOMAIN h.fs[p]

\* The path a host path leads to when symbolic links are followed, as
\* open(2) and stat(2) follow them; None if it leads nowhere or in a circle.
RECURSIVE follow(_, _, _)
follow(h, p, n) ==
    IF p \notin DOMAIN h.fs \/ n = 0 THEN None
    ELSE IF is_link(h, p) THEN follow(h, h.fs[p].link, n - 1)
    ELSE Some(p)

\* Path::exists
exists(h, p) == follow(h, p, Cardinality(DOMAIN h.fs)) # None

\* Entry::try_from(File::open(p)) of a path that exists: the file is opened
\* through the links, and its metadata is that of the opened file.
open(h, p) == h.fs[follow(h, p, Cardinality(DOMAIN h.fs))[1]]

\* Elf::find_binary, Elf::find_library
find_binary(h, name) == search_paths(DOMAIN h.fs, name, BINARY_SEARCH_PATHS)
find_library(h, name) == search_paths(DOMAIN h.fs, name, LIBRARY_SEARCH_PATHS)

\* The loop of linked_libraries over the DT_NEEDED names: each is located
\* with find_library, the first that is not found ends the call.
RECURSIVE locate(_, _)
locate(h, names) ==
    IF names = <<>> THEN [res |-> "Ok", libs |-> <<>>]
    ELSE LET lib == find_library(h, <<Head(names)>>)
             rest == locate(h, Tail(names))
         IN  IF lib = None THEN [res |-> "LibraryNotFound", libs |-> <<>>]
             ELSE IF rest.res # "Ok" THEN rest
             ELSE [res |-> "Ok", libs |-> lib \o rest.libs]

\* Elf::linked_libraries: fs::read fails on a directory, FileKind::parse on
\* a file that is no ELF; h.needed holds the DT_NEEDED names of the ELF files.
linked_libraries(h, path) ==
    IF is_dir(open(h, path)) THEN [res |-> "InputOutput", libs |-> <<>>]
    ELSE IF path \notin DOMAIN h.needed THEN [res |-> "Parsing", libs |-> <<>>]
    ELSE locate(h, h.needed[path])

----------------------------------------------------------------------------
(* initramfs.rs: add_elf and add_files *)

\* add_elf without its check that the path is already in the Vfs.
add_elf_nocheck(h, v, arg) ==
    LET found == IF ~arg.root THEN find_binary(h, arg.comps) ELSE Some(arg.comps)
    IN  IF found = None
        THEN [vfs |-> v, res |-> "BinaryNotFound", read |-> None, todo |-> <<>>]
        ELSE
        LET path == found[1]
            d == IF parent(path) # None THEN create_dir_all(v, parent(path)[1]) ELSE Ok(v)
        IN  IF d.res # "Ok"
            THEN [vfs |-> d.vfs, res |-> d.res, read |-> None, todo |-> <<>>]
            ELSE IF ~exists(h, path)
            THEN [vfs |-> d.vfs, res |-> "NotFound", read |-> None, todo |-> <<>>]
            ELSE
            LET e == create_entry(d.vfs, path, open(h, path))
                ll == linked_libraries(h, path)
            IN  IF e.res # "Ok"
                THEN [vfs |-> e.vfs, res |-> e.res, read |-> Some(path), todo |-> <<>>]
                ELSE IF ll.res # "Ok"
                THEN [vfs |-> e.vfs, res |-> ll.res, read |-> Some(path), todo |-> <<>>]
                ELSE [vfs |-> e.vfs, res |-> "Descend", read |-> Some(path),
                      todo |-> ll.libs]

\* add_elf up to its loop over the libraries (initramfs.rs:190-218): the
\* result is Ok or an error when the call returns there, and Descend with
\* the libraries to visit when it goes on; read is the host path it read and
\* inserted, if any.
add_elf(h, v, arg) ==
    LET found == IF ~arg.root THEN find_binary(h, arg.comps) ELSE Some(arg.comps)
    IN  IF found = None
        THEN [vfs |-> v, res |-> "BinaryNotFound", read |-> None, todo |-> <<>>]
        ELSE
        LET path == found[1]
            d == IF parent(path) # None THEN create_dir_all(v, parent(path)[1]) ELSE Ok(v)
        IN  IF contains(v, path)
            THEN [vfs |-> v, res |-> "Ok", read |-> None, todo |-> <<>>]
            ELSE IF d.res # "Ok"
            THEN [vfs |-> d.vfs, res |-> d.res, read |-> None, todo |-> <<>>]
            ELSE IF ~exists(h, path)
            THEN [vfs |-> d.vfs, res |-> "NotFound", read |-> None, todo |-> <<>>]
            ELSE
            LET e == create_entry(d.vfs, path, open(h, path))
                ll == linked_libraries(h, path)
            IN  IF e.res # "Ok"
                THEN [vfs |-> e.vfs, res |-> e.res, read |-> Some(path), todo |-> <<>>]
                ELSE IF ll.res # "Ok"
                THEN [vfs |-> e.vfs, res |-> ll.res, read |-> Some(path), todo |-> <<>>]
                ELSE [vfs |-> e.vfs, res |-> "Descend", read |-> Some(path),
                      todo |-> ll.libs]

\* WalkDir::new(source).min_depth(1): the host paths below source, a
\* directory before what it holds.
RECURSIVE WalkOrder(_)
WalkOrder(S) ==
    IF S = {} THEN <<>>
    ELSE LET m == CHOOSE x \in S : \A y \in S \ {x} : PathLess(x, y)
         IN  <<m>> \o WalkOrder(S \ {m})

walk(h, source) ==
    WalkOrder({p \in DOMAIN h.fs :
        Len(p) > Len(source) /\ SubSeq(p, 1, Len(source)) = source})

\* The loop of add_files over the entries of a walked source directory.
RECURSIVE add_walked(_, _, _, _, _)
add_walked(h, v, entries, source, destination) ==
    IF entries = <<>> THEN Ok(v)
    ELSE
    LET source_path == Head(entries)
        path == destination \o SubSeq(source_path, Len(source) + 1, Len(source_path))
        e == create_entry(v, path, open(h, source_path))
    IN  IF contains(v, path)
        THEN add_walked(h, v, Tail(entries), source, destination)
        ELSE IF ~exists(h, source_path) THEN Err(v, "NotFound")
        ELSE IF e.res # "Ok" THEN e
        ELSE add_walked(h, e.vfs, Tail(entries), source, destination)

\* The loop of add_files over its sources.
RECURSIVE add_sources(_, _, _, _)
add_sources(h, v, sources, destination) ==
    IF sources = <<>> THEN Ok(v)
    ELSE
    LET source == Head(sources)
    IN  IF ~exists(h, source)
        THEN Err(v, "NotFound")
        ELSE IF is_dir(open(h, source))
        THEN LET w == add_walked(h, v, walk(h, source), source, destination)
             IN  IF w.res # "Ok" THEN w
                 ELSE add_sources(h, w.vfs, Tail(sources), destination)
        ELSE LET path == destination \o <<source[Len(source)]>>
                 e == create_entry(v, path, open(h, source))
             IN  IF contains(v, path)
                 THEN add_sources(h, v, Tail(sources), destination)
                 ELSE IF e.res # "Ok" THEN e
                 ELSE add_sources(h, e.vfs, Tail(sources), destination)

\* add_files
add_files(h, v, sources, destination) ==
    LET d == create_dir_all(v, destination)
    IN  IF d.res # "Ok" THEN d ELSE add_sources(h, d.vfs, sources, destination)

----------------------------------------------------------------------------
(* A builder on a host with one binary and two libraries *)

NameL1 == <<108, 49>>                                 \* "l1"
NameL2 == <<108, 50>>                                 \* "l2"
NameL3 == <<108, 51>>                                 \* "l3", not on the host

HostB == <<Usr, Bin, CompB>>                      \* /usr/bin/b
HostL1 == <<Usr, Lib, NameL1>>                    \* /usr/lib/l1
HostL2 == <<Usr, Lib, NameL2>>                    \* /usr/lib/l2

\* Entry::try_from of a host directory (mode 0o40755) and of a host file.
HostDir ==
    [metadata |-> [DefaultMetadata EXCEPT !.mode = DIRECTORY_MODE,
                                          !.mtime = ToU64(1000)],
     data |-> None]
HostFile(data) == try_from(HostExecMode, ToU64(1000), data)

ElfFs ==
    (Root :> HostDir) @@ (<<Usr>> :> HostDir) @@ (<<Usr, Bin>> :> HostDir)
    @@ (<<Usr, Lib>> :> HostDir)
    @@ (HostB :> HostFile(<<127, 69, 76, 70, 1>>))
    @@ (HostL1 :> HostFile(<<127, 69, 76, 70, 2>>))
    @@ (HostL2 :> HostFile(<<127, 69, 76, 70, 3>>))

\* The DT_NEEDED names of the three files: chains, a diamond, cycles of one
\* and of two libraries, and a library that is not on the host.
ElfGraphs ==
    {(HostB :> nb) @@ (HostL1 :> n1) @@ (HostL2 :> n2) :
        nb \in {<<NameL1>>, <<NameL1, NameL2>>},
        n1 \in {<<>>, <<NameL2>>, <<NameL1>>},
        n2 \in {<<>>, <<NameL1>>, <<NameL3>>}}

ElfHosts == {[NoHost EXCEPT !.fs = ElfFs, !.needed = g] : g \in ElfGraphs}

\* b (searched), /usr/bin/b, /usr/lib/l1, /usr/bin/l3 (not on the host)
ElfArgs ==
    {[root |-> FALSE, comps |-> <<CompB>>], AbsPath(HostB), AbsPath(HostL1),
     AbsPath(<<Usr, Bin, NameL3>>)}

FilesSources == {<<HostB>>, <<<<Usr, Lib>>>>, <<<<Usr, Bin, NameL3>>>>}
FilesDestinations == {<<Usr, Bin>>, <<Usr, Lib>>}

InitElf ==
    /\ vfs = InitramfsNew
    /\ last = NoCall
    /\ vfsB = VfsNew
    /\ handed = <<>>
    /\ orderB = <<>>
    /\ ser = None
    /\ serB = None
    /\ host \in ElfHosts
    /\ stack = <<>>
    /\ call = NoBuilderCall
    /\ inserted = <<>>
    /\ bundle = NoBundle
    /\ conf = NoConf
    /\ run = NoRun

Count(ins, p) == IF p \in DOMAIN ins THEN ins[p] ELSE 0

Bump(ins, read) ==
    IF read = None THEN ins
    ELSE [q \in DOMAIN ins \cup {read[1]} |->
            IF q = read[1] THEN Count(ins, q) + 1 ELSE ins[q]]

\* A call of add_elf by the builder's user.
AddElf ==
    \E arg \in ElfArgs :
        LET r == add_elf(host, vfs, arg)
        IN  /\ stack = <<>>
            /\ vfs' = r.vfs
            /\ inserted' = Bump(inserted, r.read)
            /\ IF r.res = "Descend"
               THEN /\ stack' = <<[fn |-> "add_elf", todo |-> r.todo]>>
                    /\ call' = [op |-> "add_elf", arg |-> Some(arg), res |-> Running]
               ELSE /\ stack' = <<>>
                    /\ call' = [op |-> "add_elf", arg |-> Some(arg), res |-> r.res]
            /\ UNCHANGED <<last, vfsB, handed, orderB, ser, serB, host, bundle, conf, run>>

Top == stack[Len(stack)]
Pop == SubSeq(stack, 1, Len(stack) - 1)

\* The loop of a running add_elf over its libraries (initramfs.rs:218-222):
\* the call of add_elf for the next one, or the return when none is left.
ElfStep ==
    /\ stack # <<>>
    /\ Top.fn = "add_elf"
    /\ IF Top.todo = <<>>
       THEN /\ stack' = Pop
            /\ call' = IF Len(stack) = 1 THEN [call EXCEPT !.res = "Ok"] ELSE call
            /\ UNCHANGED <<vfs, inserted>>
       ELSE LET r == add_elf(host, vfs, AbsPath(Head(Top.todo)))
                rest == [Top EXCEPT !.todo = Tail(Top.todo)]
            IN  /\ vfs' = r.vfs
                /\ inserted' = Bump(inserted, r.read)
                /\ IF r.res = "Descend"
                   THEN /\ stack' = Pop \o <<rest, [fn |-> "add_elf", todo |-> r.todo]>>
                        /\ UNCHANGED call
                   ELSE IF r.res = "Ok"
                   THEN /\ stack' = Pop \o <<rest>>
                        /\ UNCHANGED call
                   ELSE /\ stack' = <<>>
                        /\ call' = [call EXCEPT !.res = r.res]
    /\ UNCHANGED <<last, vfsB, handed, orderB, ser, serB, host, bundle, conf, run>>

\* A call of add_files by the builder's user.
AddFiles ==
    \E sources \in FilesSources, destination \in FilesDestinations :
        LET r == add_files(host, vfs, sources, destination)
        IN  /\ stack = <<>>
            /\ vfs' = r.vfs
            /\ call' = [op |-> "add_files", arg |-> Some(<<sources, destination>>),
                        res |-> r.res]
            /\ UNCHANGED <<last, vfsB, handed, orderB, ser, serB, host, bundle, conf,
                           run, stack, inserted>>

NextElf == AddElf \/ ElfStep \/ AddFiles

SpecElf == InitElf /\ [][NextElf]_vars

\* A running call goes on: the program does not stop in the middle of add_elf.
FairElf == SpecElf /\ WF_vars(ElfStep)

\* The path add_elf works on for an argument, if it finds one.
Resolved(h, arg) ==
    IF ~arg.root THEN find_binary(h, arg.comps) ELSE Some(arg.comps)

\* The host paths reachable from those of S through linked_libraries.
RECURSIVE Reach(_, _)
Reach(h, S) ==
    LET T == S \cup UNION {Range(linked_libraries(h, p).libs) :
                            p \in {q \in S : exists(h, q)}}
    IN  IF T = S THEN S ELSE Reach(h, T)

\* C12: whenever add_elf(b) returns success, in whatever state of the
\* builder it was called, the Vfs holds b and every library path reachable
\* from b through linked_libraries.
C12_ElfClosureAsStated ==
    (call.op = "add_elf" /\ call.res = "Ok") =>
        Reach(host, {Resolved(host, call.arg[1])[1]}) \subseteq DOMAIN vfs

\* C13: every call of add_elf returns, whatever the libraries need of each
\* other, and no host path is read and inserted by add_elf more than once in
\* the life of a builder.
C13_ElfTerminates ==
    /\ [](\A p \in DOMAIN inserted : inserted[p] <= 1)
    /\ []<>(stack = <<>>)

\* C13's case: add_elf of the binary returned on a host where l1 needs l2
\* and l2 needs l1; each of the three files was read once.
C13_Witness ==
    /\ call.op = "add_elf" /\ call.res = "Ok" /\ stack = <<>>
    /\ host.needed[HostL1] = <<NameL2>> /\ host.needed[HostL2] = <<NameL1>>
    /\ \A p \in {HostB, HostL1, HostL2} : Count(inserted, p) = 1

----------------------------------------------------------------------------
(* kmod.rs: ModuleFormat *)

MAGIC_ELF == <<127, 69, 76, 70>>                  \* 7F 'E' 'L' 'F'
MAGIC_XZ == <<253, 55, 122, 88, 90, 0>>           \* FD 37 7A 58 5A 00
MAGIC_GZ == <<31, 139>>                           \* 1F 8B
MAGIC_ZSTD == <<40, 181, 47, 253>>                \* 28 B5 2F FD
FORMAT_MIN_BYTES_LEN == 6

\* A from_bytes that looks for the ELF magic before it looks at the length.
from_bytes_elffirst(data) ==
    IF Len(data) >= 4 /\ SubSeq(data, 1, 4) = MAGIC_ELF THEN "Elf"
    ELSE IF Len(data) < FORMAT_MIN_BYTES_LEN THEN "TooSmallForMagic"
    ELSE IF SubSeq(data, 1, 4) = MAGIC_ZSTD THEN "Zstd"
    ELSE IF SubSeq(data, 1, 6) = MAGIC_XZ THEN "Xz"
    ELSE IF SubSeq(data, 1, 2) = MAGIC_GZ THEN "Gzip"
    ELSE "UnknownMagic"

\* ModuleFormat::from_bytes: a format, or the error TooSmallForMagic or
\* UnknownMagic.
from_bytes(data) ==
    IF Len(data) < FORMAT_MIN_BYTES_LEN THEN "TooSmallForMagic"
    ELSE IF SubSeq(data, 1, 4) = MAGIC_ELF THEN "Elf"
    ELSE IF SubSeq(data, 1, 4) = MAGIC_ZSTD THEN "Zstd"
    ELSE IF SubSeq(data, 1, 6) = MAGIC_XZ THEN "Xz"
    ELSE IF SubSeq(data, 1, 2) = MAGIC_GZ THEN "Gzip"
    ELSE "UnknownMagic"

----------------------------------------------------------------------------
(* from_bytes on inputs of any length up to MaxLen *)

MaxLen == 7

Magics == {MAGIC_ELF, MAGIC_XZ, MAGIC_GZ, MAGIC_ZSTD}

\* The bytes tried at position i of an input: the byte each magic has there,
\* and two bytes that no magic has there.
FormatBytes(i) == {m[i] : m \in {n \in Magics : Len(n) >= i}} \cup {1, 255}

\* from_bytes of the empty input.
SniffEmpty ==
    /\ call.op = "new"
    /\ call' = [op |-> "from_bytes", arg |-> Some(<<>>), res |-> from_bytes(<<>>)]
    /\ UNCHANGED <<vfs, last, vfsB, handed, orderB, ser, serB, host, bundle, conf, run,
                   stack, inserted>>

\* from_bytes of an input one byte longer than the one before.
SniffLonger ==
    /\ call.op = "from_bytes"
    /\ Len(call.arg[1]) < MaxLen
    /\ \E b \in FormatBytes(Len(call.arg[1]) + 1) :
        LET data == Append(call.arg[1], b)
        IN  call' = [op |-> "from_bytes", arg |-> Some(data), res |-> from_bytes(data)]
    /\ UNCHANGED <<vfs, last, vfsB, handed, orderB, ser, serB, host, bundle, conf, run,
                   stack, inserted>>

NextFormat == SniffEmpty \/ SniffLonger

SpecFormat == Init /\ [][NextFormat]_vars

StartsWith(data, magic) ==
    Len(data) >= Len(magic) /\ SubSeq(data, 1, Len(magic)) = magic

\* C20: from_bytes returns TooSmallForMagic for every input shorter than 6
\* bytes, whatever it starts with; for an input of 6 bytes or more it
\* returns Elf, Zstd, Xz or Gzip exactly when the input starts with
\* 7F 45 4C 46, 28 B5 2F FD, FD 37 7A 58 5A 00 or 1F 8B, and UnknownMagic
\* otherwise.
C20_FromBytes ==
    call.op = "from_bytes" =>
        LET data == call.arg[1]
        IN  IF Len(data) < 6
            THEN call.res = "TooSmallForMagic"
            ELSE /\ call.res = "Elf" <=> StartsWith(data, <<127, 69, 76, 70>>)
                 /\ call.res = "Zstd" <=> StartsWith(data, <<40, 181, 47, 253>>)
                 /\ call.res = "Xz" <=> StartsWith(data, <<253, 55, 122, 88, 90, 0>>)
                 /\ call.res = "Gzip" <=> StartsWith(data, <<31, 139>>)
                 /\ call.res = "UnknownMagic" <=>
                        ~\E m \in {<<127, 69, 76, 70>>, <<40, 181, 47, 253>>,
                                   <<253, 55, 122, 88, 90, 0>>, <<31, 139>>} :
                            StartsWith(data, m)
                 /\ call.res \in {"Elf", "Zstd", "Xz", "Gzip", "UnknownMagic"}

\* C20's case: five bytes that start with the ELF magic are too small.
C20_Witness ==
    /\ call.op = "from_bytes" /\ call.res = "TooSmallForMagic"
    /\ Len(call.arg[1]) = 5 /\ StartsWith(call.arg[1], <<127, 69, 76, 70>>)

----------------------------------------------------------------------------
(* kmod.rs: Module *)

\* What libkmod hands back for a name or a path is the host's: h.lookup[name]
\* is the return value of kmod_module_new_from_lookup and the list it fills
\* (empty, with a return value of 0, when the name matches nothing),
\* h.frompath[path] the return value of kmod_module_new_from_path and its
\* module.  A module is its name and its host path; a null pointer has
\* neither.
NullModule == [name |-> None, path |-> None]

\* Module::from_name: an error only when the lookup returns a negative
\* value; otherwise kmod_module_get_module of the list, which is null for
\* the empty list.
module_from_name(h, name) ==
    LET l == h.lookup[name]
    IN  IF l.ret < 0
        THEN [res |-> "ModuleFromNameFailed", module |-> NullModule]
        ELSE [res |-> "Ok",
              module |-> IF l.list = <<>> THEN NullModule ELSE l.list[1]]

\* Module::from_path
module_from_path(h, path) ==
    LET l == h.frompath[path]
    IN  IF l.ret < 0
        THEN [res |-> "ModuleFromPathFailed", module |-> NullModule]
        ELSE [res |-> "Ok", module |-> l.module]

\* Module::host_path, Module::is_builtin
host_path(module) == module.path
is_builtin(module) == host_path(module) = None

KernelComp == <<107, 101, 114, 110, 101, 108>>    \* "kernel"
Modules == <<109, 111, 100, 117, 108, 101, 115>>  \* "modules"

\* components().skip_while(|component| component != "kernel")
RECURSIVE skip_to_kernel(_)
skip_to_kernel(comps) ==
    IF comps = <<>> THEN <<>>
    ELSE IF Head(comps) = KernelComp THEN comps
    ELSE skip_to_kernel(Tail(comps))

\* PathBuf::set_file_name on a path that ends in a normal component: the
\* component is replaced.
set_file_name(p, name) == SubSeq(p, 1, Len(p) - 1) \o <<name>>

\* Path::file_stem: the file name up to its last dot, the whole name when it
\* has no dot or only a leading one.
file_stem(name) ==
    LET dots == {i \in 1..Len(name) : name[i] = 46}
        k == CHOOSE i \in dots : \A j \in dots : j <= i
    IN  IF dots = {} \/ k = 1 THEN name ELSE SubSeq(name, 1, k - 1)

\* PathBuf::set_extension
set_extension(p, ext) ==
    SubSeq(p, 1, Len(p) - 1) \o <<file_stem(p[Len(p)]) \o <<46>> \o ext>>

\* Module::install_path of a module that is not builtin.
install_path(h, module) ==
    LET inner_path == skip_to_kernel(host_path(module)[1])
        joined == <<Usr, Lib, Modules, h.release>> \o inner_path
    IN  set_extension(set_file_name(joined, module.name[1]), <<107, 111>>)

\* uncompress_module: the ELF bytes as they are, the others through their
\* decoder; what a decoder makes of the bytes is the host's (h.decoded), and
\* bytes it cannot decode are an i/o error.
uncompress_module(h, data, format) ==
    IF format = "Elf" THEN [res |-> "Ok", data |-> data]
    ELSE IF data \in DOMAIN h.decoded THEN [res |-> "Ok", data |-> h.decoded[data]]
    ELSE [res |-> "InputOutput", data |-> <<>>]

----------------------------------------------------------------------------
(* initramfs.rs: add_module *)

\* add_module up to its loop over the dependencies (initramfs.rs:400-413):
\* Ok for a builtin module, otherwise Descend with the names to visit.
add_module(h, module) ==
    IF is_builtin(module)
    THEN [res |-> "Ok", todo |-> <<>>]
    ELSE IF module.name[1] \notin DOMAIN h.modinfo
    THEN [res |-> "ModuleGetInfoFailed", todo |-> <<>>]
    ELSE LET debug == h.modinfo[module.name[1]]
         IN  [res |-> "Descend",
              todo |-> debug.depends \o debug.softpre \o debug.softpost]

\* An add_module that installs nothing.
add_module_install_nothing(h, v, module) == Ok(v)

\* add_module after its loop (initramfs.rs:418-438).
add_module_install(h, v, module) ==
    LET path == install_path(h, module)
        d == IF parent(path) # None THEN create_dir_all(v, parent(path)[1]) ELSE Ok(v)
        compressed == h.fs[host_path(module)[1]].data[1]
        format == from_bytes(compressed)
        data == uncompress_module(h, compressed, format)
    IN  IF d.res # "Ok" THEN d
        ELSE IF contains(d.vfs, path) THEN Ok(d.vfs)
        ELSE IF ~exists(h, host_path(module)[1]) \/ is_dir(h.fs[host_path(module)[1]])
        THEN Err(d.vfs, "InputOutput")
        ELSE IF format \in {"TooSmallForMagic", "UnknownMagic"}
        THEN Err(d.vfs, format)
        ELSE IF data.res # "Ok" THEN Err(d.vfs, data.res)
        ELSE create_entry(d.vfs, path, file(data.data))

----------------------------------------------------------------------------
(* A builder on a host with kernel modules *)

MaxDepth == 4

Release == <<114>>                                \* "r"
Fs == <<102, 115>>                                \* "fs"
Opt == <<111, 112, 116>>                          \* "opt"
NameMa == <<109, 97>>                             \* "ma"
NameMb == <<109, 98>>                             \* "mb"
NameMx == <<109, 120>>                            \* "mx"
NameBi == <<98, 105>>                             \* "bi", builtin
NameZz == <<122, 122>>                            \* "zz", no such module
NameBad == <<97, 91>>                             \* "a[", not a module name
FileMa == <<109, 97, 46, 107, 111>>               \* "ma.ko"
FileMb == <<109, 98, 46, 107, 111, 46, 122, 115, 116>>\* "mb.ko.zst"
FileMx == <<109, 120, 46, 107, 111>>              \* "mx.ko"
FileNo == <<110, 111, 46, 107, 111>>              \* "no.ko", not on the host

KmodDir == <<Usr, Lib, Modules, Release>>         \* /usr/lib/modules/r
HostMa == KmodDir \o <<KernelComp, Fs, FileMa>>   \* .../kernel/fs/ma.ko
HostMb == KmodDir \o <<KernelComp, Fs, FileMb>>   \* .../kernel/fs/mb.ko.zst
HostMx == <<Opt, FileMx>>                         \* /opt/mx.ko
HostNo == <<Opt, FileNo>>                         \* /opt/no.ko

ModuleMa == [name |-> Some(NameMa), path |-> Some(HostMa)]
ModuleMb == [name |-> Some(NameMb), path |-> Some(HostMb)]
ModuleMx == [name |-> Some(NameMx), path |-> Some(HostMx)]
ModuleBi == [name |-> Some(NameBi), path |-> None]

ZstdMb == <<40, 181, 47, 253, 1, 2>>
PlainMb == <<127, 69, 76, 70, 2, 2>>

KmodFs ==
    [p \in ancestors(HostMa) \cup ancestors(HostMx) \cup {HostMb} |->
        IF p = HostMa THEN HostFile(<<127, 69, 76, 70, 2, 1>>)
        ELSE IF p = HostMb THEN HostFile(ZstdMb)
        ELSE IF p = HostMx THEN HostFile(<<127, 69, 76, 70, 2, 3>>)
        ELSE HostDir]

KmodLookup ==
    (NameMa :> [ret |-> 0, list |-> <<ModuleMa>>])
    @@ (NameMb :> [ret |-> 0, list |-> <<ModuleMb>>])
    @@ (NameBi :> [ret |-> 0, list |-> <<ModuleBi>>])
    @@ (NameZz :> [ret |-> 0, list |-> <<>>])
    @@ (NameBad :> [ret |-> -1, list |-> <<>>])

KmodFromPath ==
    (HostMa :> [ret |-> 0, module |-> ModuleMa])
    @@ (HostMx :> [ret |-> 0, module |-> ModuleMx])
    @@ (HostNo :> [ret |-> -1, module |-> NullModule])

\* The .modinfo of the modules on disk: chains, a builtin and a missing
\* dependency, cycles of one and of two modules.
KmodInfos ==
    {(NameMa :> [depends |-> da, softpre |-> pa, softpost |-> <<>>])
     @@ (NameMb :> [depends |-> <<>>, softpre |-> <<>>, softpost |-> sb])
     @@ (NameMx :> [depends |-> <<>>, softpre |-> <<>>, softpost |-> <<>>]) :
        da \in {<<>>, <<NameMb>>, <<NameMb, NameBi>>},
        pa \in {<<>>, <<NameZz>>},
        sb \in {<<>>, <<NameMa>>, <<NameMb>>}}

KmodHosts ==
    {[NoHost EXCEPT !.fs = KmodFs, !.release = Release, !.lookup = KmodLookup,
                    !.frompath = KmodFromPath, !.modinfo = i,
                    !.decoded = (ZstdMb :> PlainMb)] : i \in KmodInfos}

InitKmod ==
    /\ vfs = InitramfsNew
    /\ last = NoCall
    /\ vfsB = VfsNew
    /\ handed = <<>>
    /\ orderB = <<>>
    /\ ser = None
    /\ serB = None
    /\ host \in KmodHosts
    /\ stack = <<>>
    /\ call = NoBuilderCall
    /\ inserted = <<>>
    /\ bundle = NoBundle
    /\ conf = NoConf
    /\ run = NoRun

\* The start of add_module for the module a lookup gave, below the calls on
\* the stack s: it returns at once, or it becomes the running call.  The
\* stack holds MaxDepth calls; one more ends the program (StackOverflow), and
\* no call follows.
StartModule(op, arg, l, s) ==
    LET e == IF l.res = "Ok" THEN add_module(host, l.module) ELSE [res |-> l.res]
        c == [op |-> op, arg |-> arg, res |-> Running]
    IN  IF e.res = "Descend"
        THEN IF Len(s) >= MaxDepth
             THEN stack' = <<>> /\ call' = [c EXCEPT !.res = "StackOverflow"]
             ELSE /\ stack' = Append(s, [fn |-> "add_module", module |-> l.module,
                                         todo |-> e.todo])
                  /\ call' = c
        ELSE IF e.res = "Ok"
        THEN stack' = s /\ call' = [c EXCEPT !.res = IF s = <<>> THEN "Ok" ELSE Running]
        ELSE stack' = <<>> /\ call' = [c EXCEPT !.res = e.res]

\* A call of add_module_from_name by the builder's user.
AddModuleFromName ==
    \E name \in DOMAIN host.lookup :
        /\ stack = <<>>
        /\ call.res # "StackOverflow"
        /\ StartModule("add_module_from_name", Some(name),
                       module_from_name(host, name), <<>>)
        /\ UNCHANGED <<vfs, last, vfsB, handed, orderB, ser, serB, host, bundle, conf,
                       run, inserted>>

\* A call of add_module_from_path by the builder's user.
AddModuleFromPath ==
    \E path \in DOMAIN host.frompath :
        /\ stack = <<>>
        /\ call.res # "StackOverflow"
        /\ StartModule("add_module_from_path", Some(path),
                       module_from_path(host, path), <<>>)
        /\ UNCHANGED <<vfs, last, vfsB, handed, orderB, ser, serB, host, bundle, conf,
                       run, inserted>>

\* A running add_module: the lookup and the call of add_module for its next
\* dependency (initramfs.rs:414-415) or, when none is left, the installation
\* and the return.
KmodStep ==
    /\ stack # <<>>
    /\ Top.fn = "add_module"
    /\ IF Top.todo = <<>>
       THEN LET r == add_module_install(host, vfs, Top.module)
            IN  /\ vfs' = r.vfs
                /\ stack' = IF r.res = "Ok" THEN Pop ELSE <<>>
                /\ call' = IF r.res # "Ok" THEN [call EXCEPT !.res = r.res]
                           ELSE IF Len(stack) = 1 THEN [call EXCEPT !.res = "Ok"]
                           ELSE call
       ELSE /\ StartModule(call.op, call.arg,
                           module_from_name(host, Head(Top.todo)),
                           Pop \o <<[Top EXCEPT !.todo = Tail(Top.todo)]>>)
            /\ UNCHANGED vfs
    /\ UNCHANGED <<last, vfsB, handed, orderB, ser, serB, host, bundle, conf, run, inserted>>

NextKmod == AddModuleFromName \/ AddModuleFromPath \/ KmodStep

SpecKmod == InitKmod /\ [][NextKmod]_vars

IsModuleCall == call.op \in {"add_module_from_name", "add_module_from_path"}

\* The module of the call made last.
Called ==
    IF call.op = "add_module_from_name"
    THEN module_from_name(host, call.arg[1]).module
    ELSE module_from_path(host, call.arg[1]).module

\* C14: every call that installs a kernel module returns, with success or
\* with an error, whatever the dependencies of the modules are, cyclic ones
\* included: the recursion never outgrows the stack.
C14_ModulesTerminateAsStated == IsModuleCall => call.res # "StackOverflow"

\* The names in the .modinfo of a module that is on disk.
Deps(h, module) ==
    IF is_builtin(module) \/ module.name[1] \notin DOMAIN h.modinfo THEN {}
    ELSE LET i == h.modinfo[module.name[1]]
         IN  Range(i.depends) \cup Range(i.softpre) \cup Range(i.softpost)

\* The names reachable from those of S through depends and the softdeps.
RECURSIVE ReachNames(_, _)
ReachNames(h, S) ==
    LET T == S \cup UNION {Deps(h, module_from_name(h, n).module) :
                            n \in {m \in S : h.lookup[m].ret >= 0}}
    IN  IF T = S THEN S ELSE ReachNames(h, T)

\* C16: whenever add_module_from_name or add_module_from_path returns
\* success for a module that is not builtin, its install path is in the Vfs
\* and every module name reachable from it through depends, pre_softdeps and
\* post_softdeps is that of a module whose install path is in the Vfs or
\* that has no host path.
C16_ModuleClosure ==
    (IsModuleCall /\ call.res = "Ok" /\ ~is_builtin(Called)) =>
        /\ contains(vfs, install_path(host, Called))
        /\ \A n \in ReachNames(host, Deps(host, Called)) :
            LET l == module_from_name(host, n)
            IN  /\ l.res = "Ok"
                /\ is_builtin(l.module) \/ contains(vfs, install_path(host, l.module))

\* C16's case: ma, which depends on mb and on a builtin module, was added by
\* its name; both files are in the Vfs, mb's decompressed.
C16_Witness ==
    /\ call.op = "add_module_from_name" /\ call.arg = Some(NameMa)
    /\ call.res = "Ok"
    /\ host.modinfo[NameMa].depends = <<NameMb, NameBi>>
    /\ contains(vfs, install_path(host, ModuleMa))
    /\ contains(vfs, install_path(host, ModuleMb))
    /\ vfs[install_path(host, ModuleMb)] = file(PlainMb)

\* C18: for every module that is not builtin, looked up by name or opened
\* from any host path, install_path() is
\* /usr/lib/modules/<release>/kernel/<subtree>/<module_name>.ko with
\* <subtree> the directories of the host path below its kernel component; it
\* lies beneath /usr/lib/modules/<release>/kernel/ and its file name is
\* <module_name>.ko.
C18_InstallPathAsStated ==
    (IsModuleCall /\ ~is_builtin(Called)) =>
        LET ip == install_path(host, Called)
            below == skip_to_kernel(Called.path[1])
            ko == Called.name[1] \o <<46, 107, 111>>
        IN  /\ Len(ip) >= 6
            /\ SubSeq(ip, 1, 5) = <<Usr, Lib, Modules, host.release, KernelComp>>
            /\ ip[Len(ip)] = ko
            /\ below # <<>> =>
                ip = <<Usr, Lib, Modules, host.release>>
                        \o SubSeq(below, 1, Len(below) - 1) \o <<ko>>

\* The same for the modules whose host path has a kernel component.
C18_InstallPathBelowKernel ==
    (IsModuleCall /\ ~is_builtin(Called)
        /\ skip_to_kernel(Called.path[1]) # <<>>) => C18_InstallPathAsStated

\* C19: add_module_from_name with a name that is neither a module on disk
\* nor a builtin one returns an error; it is never reported as success.
C19_MissingModuleAsStated ==
    (/\ call.op = "add_module_from_name"
     /\ host.lookup[call.arg[1]].ret >= 0
     /\ host.lookup[call.arg[1]].list = <<>>) => call.res # "Ok"

----------------------------------------------------------------------------
(* Relative paths *)

\* A relative path as a key of the Vfs: its components after an empty one,
\* which no component of an absolute path is.  <<Rel>> is the empty path "",
\* the last ancestor of every relative path.
Rel == <<>>
DotDot == <<46, 46>>                              \* ".."

\* A path given as [root, comps], as a key of the Vfs and as bytes.
Key(p) == IF p.root THEN p.comps ELSE <<Rel>> \o p.comps
Bytes(p) == IF p.root THEN PathBytes(p.comps) ELSE Joined(p.comps)

----------------------------------------------------------------------------
(* systemd.rs *)

System == <<115, 121, 115, 116, 101, 109>>        \* "system"
SystemControl == <<115, 121, 115, 116, 101, 109, 46, 99, 111, 110, 116, 114, 111, 108>>\* "system.control"
SystemAttached == <<115, 121, 115, 116, 101, 109, 46, 97, 116, 116, 97, 99, 104, 101, 100>>\* "system.attached"
\* "initrd.target.wants"
InitrdWants ==
    <<105, 110, 105, 116, 114, 100, 46, 116, 97, 114, 103, 101, 116, 46, 119, 97, 110, 116, 115>>
\* "initrd-root-device.target.wants"
InitrdRootDeviceWants ==
    <<105, 110, 105, 116, 114, 100, 45, 114, 111, 111, 116, 45, 100, 101, 118, 105, 99, 101, 46, 116, 97, 114, 103, 101, 116, 46, 119, 97, 110, 116, 115>>
\* "initrd-root-fs.target.wants"
InitrdRootFsWants ==
    <<105, 110, 105, 116, 114, 100, 45, 114, 111, 111, 116, 45, 102, 115, 46, 116, 97, 114, 103, 101, 116, 46, 119, 97, 110, 116, 115>>
\* "sysinit.target.wants"
SysinitWants ==
    <<115, 121, 115, 105, 110, 105, 116, 46, 116, 97, 114, 103, 101, 116, 46, 119, 97, 110, 116, 115>>
\* "sockets.target.wants"
SocketsWants ==
    <<115, 111, 99, 107, 101, 116, 115, 46, 116, 97, 114, 103, 101, 116, 46, 119, 97, 110, 116, 115>>

\* UNIT_SEARCH_PATHS
UNIT_SEARCH_PATHS ==
    <<<<Usr, Lib, Systemd, System>>, <<Etc, Systemd, System>>,
      <<Etc, Systemd, SystemControl>>, <<Etc, Systemd, SystemAttached>>>>

\* UNIT_INSTALL_PATHS
UNIT_INSTALL_PATHS ==
    <<<<Usr, Lib, Systemd, System, InitrdWants>>,
      <<Usr, Lib, Systemd, System, InitrdRootDeviceWants>>,
      <<Usr, Lib, Systemd, System, InitrdRootFsWants>>,
      <<Usr, Lib, Systemd, System, SysinitWants>>>>

\* SOCKET_INSTALL_PATHS
SOCKET_INSTALL_PATHS == <<<<Usr, Lib, Systemd, System, SocketsWants>>>>

\* Path::extension: what follows the last dot of the file name, if the name
\* has a dot other than a leading one.
extension(name) ==
    LET dots == {i \in 1..Len(name) : name[i] = 46}
        k == CHOOSE i \in dots : \A j \in dots : j <= i
    IN  IF dots = {} \/ k = 1 THEN None ELSE Some(SubSeq(name, k + 1, Len(name)))

EndsWith(s, suffix) ==
    Len(s) >= Len(suffix) /\ SubSeq(s, Len(s) - Len(suffix) + 1, Len(s)) = suffix

\* filter(|dep| !dep.ends_with(".slice"))
RECURSIVE without_slices(_)
without_slices(names) ==
    IF names = <<>> THEN <<>>
    ELSE IF EndsWith(Head(names), <<46, 115, 108, 105, 99, 101>>)
    THEN without_slices(Tail(names))
    ELSE <<Head(names)>> \o without_slices(Tail(names))

\* Unit::from_name.  h.units[path] is the mapping section -> (key -> values)
\* that the loop over the parsed unit file collects: a section is in it when
\* it has a property.  An ExecStart value is held as the path of its first
\* token, a Requires value as its space separated names.  A failed expect
\* ends the program: Panic.
from_name(h, name) ==
    LET found == search_paths(DOMAIN h.fs, <<name>>, UNIT_SEARCH_PATHS)
    IN  IF found = None THEN [res |-> "UnitNotFound"]
        ELSE IF found[1] \notin DOMAIN h.units THEN [res |-> "Parse"]
        ELSE
        LET path == found[1]
            properties == h.units[path]
            ext == extension(path[Len(path)])
            static_paths ==
                IF ext \in {Some(<<112, 97, 116, 104>>), Some(<<115, 101, 114, 118, 105, 99, 101>>),
                            Some(<<116, 97, 114, 103, 101, 116>>)}
                THEN UNIT_INSTALL_PATHS
                ELSE IF ext = Some(<<115, 111, 99, 107, 101, 116>>) THEN SOCKET_INSTALL_PATHS
                ELSE <<>>
        IN  IF /\ "Service" \in DOMAIN properties
               /\ "ExecStart" \notin DOMAIN properties["Service"]
            THEN [res |-> "Panic"]
            ELSE IF "Unit" \notin DOMAIN properties
            THEN [res |-> "Panic"]
            ELSE
            [res |-> "Ok", path |-> path, data |-> h.fs[path].data[1],
             binaries |->
                IF "Service" \in DOMAIN properties
                THEN properties["Service"]["ExecStart"] ELSE <<>>,
             dependencies |->
                IF "Requires" \in DOMAIN properties["Unit"]
                THEN without_slices(properties["Unit"]["Requires"][1]) ELSE <<>>,
             install_path |-> search_paths(DOMAIN h.fs, <<name>>, static_paths)]

----------------------------------------------------------------------------
(* initramfs.rs: add_symlink and add_systemd_unit *)

\* add_symlink
add_symlink(v, path, target) ==
    LET d == IF parent(path) # None THEN create_dir_all(v, parent(path)[1]) ELSE Ok(v)
    IN  IF contains(v, Key(target)) THEN Ok(v)
        ELSE IF d.res # "Ok" THEN d
        ELSE create_entry(d.vfs, path, symlink(Bytes(target)))

\* add_systemd_unit up to its loops (initramfs.rs:337-354): the unit is
\* read and its file installed unless the path is there; unit holds what is
\* left to do.
add_systemd_unit(h, v, name) ==
    LET u == from_name(h, name)
        d == create_dir_all(v, parent(u.path)[1])
        e == create_entry(d.vfs, u.path, file(u.data))
        frame == [fn |-> "add_systemd_unit", name |-> name,
                  binaries |-> u.binaries, install_path |-> u.install_path,
                  dependencies |-> u.dependencies]
    IN  IF u.res # "Ok" THEN [vfs |-> v, res |-> u.res]
        ELSE IF contains(v, u.path) THEN [vfs |-> v, res |-> "Descend", unit |-> frame]
        ELSE IF d.res # "Ok" THEN [vfs |-> d.vfs, res |-> d.res]
        ELSE IF e.res # "Ok" THEN [vfs |-> e.vfs, res |-> e.res]
        ELSE [vfs |-> e.vfs, res |-> "Descend", unit |-> frame]

----------------------------------------------------------------------------
(* The builder over a host with unit files *)

NameU1 == <<117, 49, 46, 115, 101, 114, 118, 105, 99, 101>>\* "u1.service"
NameU2 == <<117, 50, 46, 115, 101, 114, 118, 105, 99, 101>>\* "u2.service"
NameU3 == <<117, 51, 46, 115, 101, 114, 118, 105, 99, 101>>\* "u3.service", not on the host
NameSlice == <<115, 46, 115, 108, 105, 99, 101>>  \* "s.slice"

HostU1 == <<Usr, Lib, Systemd, System, NameU1>>
HostU2 == <<Etc, Systemd, System, NameU2>>
HostWantsU1 == <<Usr, Lib, Systemd, System, SysinitWants, NameU1>>

\* Entry::try_from of a host unit file (mode 0o100644).
HostUnitFile(data) == try_from(FILE_MODE, ToU64(1000), data)

\* /usr/bin/b needs l1; u1.service is enabled in sysinit.target.wants.
UnitFs ==
    ElfFs @@ (<<Usr, Lib, Systemd>> :> HostDir)
    @@ (<<Usr, Lib, Systemd, System>> :> HostDir)
    @@ (<<Usr, Lib, Systemd, System, SysinitWants>> :> HostDir)
    @@ (<<Etc>> :> HostDir) @@ (<<Etc, Systemd>> :> HostDir)
    @@ (<<Etc, Systemd, System>> :> HostDir)
    @@ (HostU1 :> HostUnitFile(<<91, 85, 49>>))
    @@ (HostU2 :> HostUnitFile(<<91, 85, 50>>))
    @@ (HostWantsU1 :> HostUnitFile(<<91, 85, 49>>))

UnitNeeded == (HostB :> <<NameL1>>) @@ (HostL1 :> <<>>) @@ (HostL2 :> <<>>)

\* The sections of u1.service: [Service] with an ExecStart and [Unit] with
\* the Requires r, or with a Description only.
ServiceUnit(r) ==
    ("Service" :> ("ExecStart" :> <<AbsPath(HostB)>>))
    @@ ("Unit" :> (IF r = None THEN "Description" :> <<<<>>>> ELSE "Requires" :> r))

\* The units' properties.  u1.service requires nothing, a slice and
\* u2.service, or itself; u2.service has no [Service] and requires nothing,
\* u1.service or a unit that is not on the host, or it has a [Service]
\* without ExecStart, or no [Unit].
UnitGraphs ==
    {(HostU1 :> ServiceUnit(r1)) @@ (HostU2 :> p2) :
        r1 \in {None, <<<<NameSlice, NameU2>>>>, <<<<NameU1>>>>},
        p2 \in {"Unit" :> ("Description" :> <<<<>>>>),
                "Unit" :> ("Requires" :> <<<<NameU1>>>>),
                "Unit" :> ("Requires" :> <<<<NameU3>>>>),
                ("Service" :> ("Type" :> <<<<>>>>)) @@ ("Unit" :> ("Description" :> <<<<>>>>)),
                "Service" :> ("ExecStart" :> <<AbsPath(HostB)>>)}}

UnitHosts ==
    {[NoHost EXCEPT !.fs = UnitFs, !.needed = UnitNeeded, !.units = g] :
        g \in UnitGraphs}

UnitNames == {NameU1, NameU2, NameU3}

\* A unit file copied to "..", to the directory of the units, to the
\* directory of the enabled ones.
UnitDestinations ==
    {<<Rel, DotDot>>, <<Usr, Lib, Systemd, System>>,
     <<Usr, Lib, Systemd, System, SysinitWants>>}

InitUnit ==
    /\ vfs = InitramfsNew
    /\ last = NoCall
    /\ vfsB = VfsNew
    /\ handed = <<>>
    /\ orderB = <<>>
    /\ ser = None
    /\ serB = None
    /\ host \in UnitHosts
    /\ stack = <<>>
    /\ call = NoBuilderCall
    /\ inserted = <<>>
    /\ bundle = NoBundle
    /\ conf = NoConf
    /\ run = NoRun

\* A call of add_systemd_unit by the builder's user.
\* The program has ended in the middle of a call.
Aborted == call.res \in {"StackOverflow", "Panic"}

AddSystemdUnit ==
    \E name \in UnitNames :
        LET r == add_systemd_unit(host, vfs, name)
        IN  /\ stack = <<>>
            /\ ~Aborted
            /\ vfs' = r.vfs
            /\ IF r.res = "Descend"
               THEN /\ stack' = <<r.unit>>
                    /\ call' = [op |-> "add_systemd_unit", arg |-> Some(name),
                                res |-> Running]
               ELSE /\ stack' = <<>>
                    /\ call' = [op |-> "add_systemd_unit", arg |-> Some(name),
                                res |-> r.res]
            /\ UNCHANGED <<last, vfsB, handed, orderB, ser, serB, host, bundle, conf,
                           run, inserted>>

\* The rest of a running add_systemd_unit (initramfs.rs:357-371): add_elf
\* of the next binary, then the symlink of the install path, then
\* add_systemd_unit of the next dependency, then the return.  A call that
\* would be deeper than MaxDepth frames ends the program.
UnitStep ==
    /\ stack # <<>>
    /\ Top.fn = "add_systemd_unit"
    /\ IF Top.binaries # <<>>
       THEN LET r == add_elf(host, vfs, Head(Top.binaries))
                rest == [Top EXCEPT !.binaries = Tail(Top.binaries)]
            IN  /\ vfs' = r.vfs
                /\ inserted' = Bump(inserted, r.read)
                /\ IF r.res = "Descend"
                   THEN /\ stack' = Pop \o <<rest, [fn |-> "add_elf", todo |-> r.todo]>>
                        /\ UNCHANGED call
                   ELSE IF r.res = "Ok"
                   THEN /\ stack' = Pop \o <<rest>>
                        /\ UNCHANGED call
                   ELSE /\ stack' = <<>>
                        /\ call' = [call EXCEPT !.res = r.res]
       ELSE IF Top.install_path # None
       THEN LET r == add_symlink(vfs, Top.install_path[1],
                                 [root |-> FALSE, comps |-> <<DotDot, Top.name>>])
            IN  /\ vfs' = r.vfs
                /\ UNCHANGED inserted
                /\ IF r.res = "Ok"
                   THEN /\ stack' = Pop \o <<[Top EXCEPT !.install_path = None]>>
                        /\ UNCHANGED call
                   ELSE /\ stack' = <<>>
                        /\ call' = [call EXCEPT !.res = r.res]
       ELSE IF Top.dependencies # <<>>
       THEN LET r == add_systemd_unit(host, vfs, Head(Top.dependencies))
                rest == [Top EXCEPT !.dependencies = Tail(Top.dependencies)]
            IN  /\ UNCHANGED inserted
                /\ IF r.res # "Descend"
                   THEN /\ vfs' = r.vfs
                        /\ stack' = <<>>
                        /\ call' = [call EXCEPT !.res = r.res]
                   ELSE IF Len(stack) >= MaxDepth
                   THEN /\ UNCHANGED vfs
                        /\ stack' = <<>>
                        /\ call' = [call EXCEPT !.res = "StackOverflow"]
                   ELSE /\ vfs' = r.vfs
                        /\ stack' = Pop \o <<rest, r.unit>>
                        /\ UNCHANGED call
       ELSE /\ stack' = Pop
            /\ call' = IF Len(stack) = 1 THEN [call EXCEPT !.res = "Ok"] ELSE call
            /\ UNCHANGED <<vfs, inserted>>
    /\ UNCHANGED <<last, vfsB, handed, orderB, ser, serB, host, bundle, conf, run>>

\* A call of add_files with one unit file by the builder's user.
AddUnitFiles ==
    \E source \in {HostU1, HostU2}, destination \in UnitDestinations :
        LET r == add_files(host, vfs, <<source>>, destination)
        IN  /\ stack = <<>>
            /\ ~Aborted
            /\ vfs' = r.vfs
            /\ call' = [op |-> "add_files", arg |-> Some(<<<<source>>, destination>>),
                        res |-> r.res]
            /\ UNCHANGED <<last, vfsB, handed, orderB, ser, serB, host, bundle, conf,
                           run, stack, inserted>>

NextUnit == AddSystemdUnit \/ UnitStep \/ ElfStep \/ AddUnitFiles

SpecUnit == InitUnit /\ [][NextUnit]_vars

IsUnitCall == call.op = "add_systemd_unit"

\* C15: add_systemd_unit terminates on every host: no call of it recurses
\* without end.
C15_UnitsTerminateAsStated == IsUnitCall => call.res # "StackOverflow"

\* C17: when add_systemd_unit(u) has returned Ok and u has an install path,
\* the Vfs holds at that path a symlink whose payload is ../u.
C17_UnitSymlinkAsStated ==
    (IsUnitCall /\ call.res = "Ok") =>
        LET u == from_name(host, call.arg[1])
        IN  u.install_path # None =>
                /\ contains(vfs, u.install_path[1])
                /\ is_symlink(vfs[u.install_path[1]])
                /\ vfs[u.install_path[1]].data = Some(Joined(<<DotDot, call.arg[1]>>))

----------------------------------------------------------------------------
(* Entries read from host files *)

\* A regular file by its mode as the host reports it: S_IFREG under S_IFMT,
\* with any permission bits.
IsHostFile(entry) == (entry.metadata.mode \div 4096) % 16 = 8 /\ entry.data # None

\* C30 as stated: an entry read from a host regular file is protected
\* whatever its permission bits: contains_file reports it, create_entry and
\* create_dir at its path answer FileExists, and create_dir of a child of it
\* answers NotADirectory.
C30_HostFileProtectedAsStated ==
    [][\A p \in DOMAIN vfs : IsHostFile(vfs[p]) =>
        /\ contains_file(vfs, p)
        /\ (IsVfsCall("create_entry") /\ last'.path = p) => last'.res = "FileExists"
        /\ (IsVfsCall("create_dir") /\ last'.path = p
                /\ ~ParentAbsent(vfs, p) /\ ~ParentIsFile(vfs, p)) =>
            last'.res = "FileExists"
        /\ (IsVfsCall("create_dir") /\ parent(last'.path) = Some(p)) =>
            last'.res = "NotADirectory"]_vars

\* C30 where it does hold: the host file's mode is 0o100644.
C30_PlainHostFileProtected ==
    [][\A p \in DOMAIN vfs : (IsHostFile(vfs[p]) /\ vfs[p].metadata.mode = FILE_MODE) =>
        /\ contains_file(vfs, p)
        /\ (IsVfsCall("create_entry") /\ last'.path = p) => last'.res = "FileExists"
        /\ (IsVfsCall("create_dir") /\ last'.path = p
                /\ ~ParentAbsent(vfs, p) /\ ~ParentIsFile(vfs, p)) =>
            last'.res = "FileExists"
        /\ (IsVfsCall("create_dir") /\ parent(last'.path) = Some(p)) =>
            last'.res = "NotADirectory"]_vars

----------------------------------------------------------------------------
(* The builder under calls of add_elf, add_files and add_symlink *)

NameLn == <<108, 110>>                                \* "ln"
NameLx == <<108, 120>>                                \* "lx"

\* A symbolic link of the host.
HostLink(target) ==
    [metadata |-> [DefaultMetadata EXCEPT !.mode = SYMLINK_MODE,
                                          !.mtime = ToU64(1000)],
     data |-> None, link |-> target]

\* The host of the ELF files with /usr/lib/ln -> /usr/lib/l1 and the
\* dangling /usr/bin/lx -> /usr/bin/l3.
BuilderFs ==
    ElfFs @@ (<<Usr, Lib, NameLn>> :> HostLink(HostL1))
    @@ (<<Usr, Bin, NameLx>> :> HostLink(<<Usr, Bin, NameL3>>))

BuilderHosts ==
    {[NoHost EXCEPT !.fs = BuilderFs, !.needed = g] :
        g \in {(HostB :> <<NameL1>>) @@ (HostL1 :> n1) @@ (HostL2 :> <<>>) :
                n1 \in {<<>>, <<NameL2>>}}}

BuilderSources == {<<HostB>>, <<<<Usr, Lib>>>>, <<<<Usr, Bin>>, <<Usr, Lib>>>>}
BuilderDestinations == {<<Usr, Bin>>, <<Usr, Lib>>}

\* /bin is seeded as a symlink, /usr/bin/b is where the binary goes.
SymlinkPaths == {<<Bin>>, <<CompA>>, HostB \o <<CompA>>}
SymlinkTargets == {AbsPath(HostB), [root |-> FALSE, comps |-> <<CompB>>]}

InitBuilder ==
    /\ vfs = InitramfsNew
    /\ last = NoCall
    /\ vfsB = VfsNew
    /\ handed = <<>>
    /\ orderB = <<>>
    /\ ser = None
    /\ serB = None
    /\ host \in BuilderHosts
    /\ stack = <<>>
    /\ call = NoBuilderCall
    /\ inserted = <<>>
    /\ bundle = NoBundle
    /\ conf = NoConf
    /\ run = NoRun

\* A call of add_files by the builder's user.
AddTrees ==
    \E sources \in BuilderSources, destination \in BuilderDestinations :
        LET r == add_files(host, vfs, sources, destination)
        IN  /\ stack = <<>>
            /\ vfs' = r.vfs
            /\ call' = [op |-> "add_files", arg |-> Some(<<sources, destination>>),
                        res |-> r.res]
            /\ UNCHANGED <<last, vfsB, handed, orderB, ser, serB, host, bundle, conf,
                           run, stack, inserted>>

\* A call of add_symlink by the builder's user.
AddSymlink ==
    \E path \in SymlinkPaths, target \in SymlinkTargets :
        LET r == add_symlink(vfs, path, target)
        IN  /\ stack = <<>>
            /\ vfs' = r.vfs
            /\ call' = [op |-> "add_symlink", arg |-> Some(<<path, target>>),
                        res |-> r.res]
            /\ UNCHANGED <<last, vfsB, handed, orderB, ser, serB, host, bundle, conf,
                           run, stack, inserted>>

NextBuilder == AddElf \/ ElfStep \/ AddTrees \/ AddSymlink

SpecBuilder == InitBuilder /\ [][NextBuilder]_vars

\* C25 as stated: add_symlink(path, target) returns Ok and changes nothing
\* when the Vfs has target as a path; otherwise, when it returns Ok, every
\* ancestor of path is present, path holds a symlink whose payload is the
\* bytes of target, and every other entry that was present is unchanged.
C25_AddSymlinkAsStated ==
    [][call'.op = "add_symlink" =>
        LET path == call'.arg[1][1]
            target == call'.arg[1][2]
        IN  IF contains(vfs, Key(target))
            THEN call'.res = "Ok" /\ vfs' = vfs
            ELSE call'.res = "Ok" =>
                    /\ \A q \in ancestors(path) : contains(vfs', q)
                    /\ vfs'[path] = symlink(Bytes(target))
                    /\ \A q \in DOMAIN vfs \ {path} :
                        contains(vfs', q) /\ vfs'[q] = vfs[q]]_vars

\* C25 where no ancestor of path is an entry read from a host file.
C25_AddSymlinkElsewhere ==
    [][(call'.op = "add_symlink"
            /\ \A q \in ancestors(call'.arg[1][1]) \ {call'.arg[1][1]} :
                contains(vfs, q) => ~IsHostFile(vfs[q])) =>
        LET path == call'.arg[1][1]
            target == call'.arg[1][2]
        IN  IF contains(vfs, Key(target))
            THEN call'.res = "Ok" /\ vfs' = vfs
            ELSE call'.res = "Ok" =>
                    /\ \A q \in ancestors(path) : contains(vfs', q)
                    /\ vfs'[path] = symlink(Bytes(target))
                    /\ \A q \in DOMAIN vfs \ {path} :
                        contains(vfs', q) /\ vfs'[q] = vfs[q]]_vars

\* The path under destination that mirrors the host path q beneath source.
Mirror(source, q, destination) ==
    destination \o SubSeq(q, Len(source) + 1, Len(q))

\* What the claim expects in the Vfs for the host path q: no payload for a
\* directory, the bytes for a regular file, the link's target for a symlink.
Mirrors(h, q, entry) ==
    IF is_link(h, q)
    THEN is_symlink(entry) /\ entry.data = Some(PathBytes(h.fs[q].link))
    ELSE IF is_dir(h.fs[q])
    THEN is_dir(entry) /\ entry.data = None
    ELSE entry.metadata.mode = h.fs[q].metadata.mode /\ entry.data = h.fs[q].data

\* C26 as stated: after a successful add_files(sources, destination), for
\* each directory among the sources every host path beneath it whose mirrored
\* path was absent is present there with the same kind (a symlink with the
\* link's target as payload), and the paths that were present are unchanged.
C26_AddFilesAsStated ==
    [][(call'.op = "add_files" /\ call'.res = "Ok") =>
        LET sources == call'.arg[1][1]
            destination == call'.arg[1][2]
        IN  /\ \A i \in DOMAIN sources :
                (exists(host, sources[i]) /\ is_dir(open(host, sources[i]))) =>
                    \A q \in DOMAIN host.fs :
                        (/\ Len(q) > Len(sources[i])
                         /\ SubSeq(q, 1, Len(sources[i])) = sources[i]
                         /\ ~contains(vfs, Mirror(sources[i], q, destination))) =>
                            /\ contains(vfs', Mirror(sources[i], q, destination))
                            /\ Mirrors(host, q, vfs'[Mirror(sources[i], q, destination)])
            /\ \A m \in DOMAIN vfs : contains(vfs', m) /\ vfs'[m] = vfs[m]]_vars

\* C29 as stated: a path that is present in the builder's Vfs stays present
\* with the same entry under every later call of the builder.
C29_WriteOnceAsStated ==
    [][\A p \in DOMAIN vfs : contains(vfs', p) /\ vfs'[p] = vfs[p]]_vars

----------------------------------------------------------------------------
(* microcode.rs *)

X86 == <<120, 56, 54>>                            \* "x86"
Microcode == <<109, 105, 99, 114, 111, 99, 111, 100, 101>>\* "microcode"
\* "AuthenticAMD.bin"
AMD_UCODE_NAME ==
    <<65, 117, 116, 104, 101, 110, 116, 105, 99, 65, 77, 68, 46, 98, 105, 110>>
\* "GenuineIntel.bin"
INTEL_UCODE_NAME ==
    <<71, 101, 110, 117, 105, 110, 101, 73, 110, 116, 101, 108, 46, 98, 105, 110>>

UCODE_TREE == <<KernelComp, X86, Microcode>>

\* MicrocodeBundle::new
MicrocodeBundleNew ==
    [bundle |-> [amd |-> FALSE, intel |-> FALSE],
     vfs |-> create_dir_all(VfsNew, UCODE_TREE).vfs]

\* fs::read_dir(dir): the entries of a host directory.
read_dir(h, dir) ==
    {p \in DOMAIN h.fs : Len(p) = Len(dir) + 1 /\ SubSeq(p, 1, Len(dir)) = dir}

\* The loop of bundle_ucode over a listing of the directory: the bytes of
\* each regular file are appended, anything else is passed over.
RECURSIVE bundle_files(_, _)
bundle_files(h, listing) ==
    IF listing = <<>> THEN <<>>
    ELSE IF is_link(h, Head(listing)) \/ is_dir(h.fs[Head(listing)])
    THEN bundle_files(h, Tail(listing))
    ELSE h.fs[Head(listing)].data[1] \o bundle_files(h, Tail(listing))

\* bundle_ucode: read_dir fails on what is no directory; listing is the
\* order in which the host hands out the entries.
bundle_ucode(h, dir, listing) ==
    IF ~exists(h, dir) \/ ~is_dir(open(h, dir))
    THEN [res |-> "InputOutput", data |-> <<>>]
    ELSE [res |-> "Ok", data |-> bundle_files(h, listing)]

\* An add_amd_ucode that does not look at its flag.
add_amd_ucode_noflag(h, b, v, path, listing) ==
    LET u == bundle_ucode(h, path, listing)
        e == create_entry(v, UCODE_TREE \o <<AMD_UCODE_NAME>>, file(u.data))
    IN  IF u.res # "Ok"
        THEN [bundle |-> b, vfs |-> v, res |-> u.res, read |-> TRUE]
        ELSE IF e.res # "Ok"
        THEN [bundle |-> b, vfs |-> e.vfs, res |-> e.res, read |-> TRUE]
        ELSE [bundle |-> [b EXCEPT !.amd = TRUE], vfs |-> e.vfs, res |-> "Ok",
              read |-> TRUE]

\* MicrocodeBundle::add_amd_ucode; read tells whether the host was read.
add_amd_ucode(h, b, v, path, listing) ==
    LET u == bundle_ucode(h, path, listing)
        e == create_entry(v, UCODE_TREE \o <<AMD_UCODE_NAME>>, file(u.data))
    IN  IF b.amd
        THEN [bundle |-> b, vfs |-> v, res |-> "Ok", read |-> FALSE]
        ELSE IF u.res # "Ok"
        THEN [bundle |-> b, vfs |-> v, res |-> u.res, read |-> TRUE]
        ELSE IF e.res # "Ok"
        THEN [bundle |-> b, vfs |-> e.vfs, res |-> e.res, read |-> TRUE]
        ELSE [bundle |-> [b EXCEPT !.amd = TRUE], vfs |-> e.vfs, res |-> "Ok",
              read |-> TRUE]

\* MicrocodeBundle::add_intel_ucode
add_intel_ucode(h, b, v, path, listing) ==
    LET u == bundle_ucode(h, path, listing)
        e == create_entry(v, UCODE_TREE \o <<INTEL_UCODE_NAME>>, file(u.data))
    IN  IF b.intel
        THEN [bundle |-> b, vfs |-> v, res |-> "Ok", read |-> FALSE]
        ELSE IF u.res # "Ok"
        THEN [bundle |-> b, vfs |-> v, res |-> u.res, read |-> TRUE]
        ELSE IF e.res # "Ok"
        THEN [bundle |-> b, vfs |-> e.vfs, res |-> e.res, read |-> TRUE]
        ELSE [bundle |-> [b EXCEPT !.intel = TRUE], vfs |-> e.vfs, res |-> "Ok",
              read |-> TRUE]

----------------------------------------------------------------------------
(* A MicrocodeBundle on a host with microcode directories *)

CompX == <<120>>                                  \* "x"
CompY == <<121>>                                  \* "y"

\* /lib/a holds two blobs; /lib/b holds a blob, a directory and a symbolic
\* link; /lib/x is empty; /lib/y is a file.
UcodeFs ==
    (Root :> HostDir) @@ (<<Lib>> :> HostDir)
    @@ (<<Lib, CompA>> :> HostDir)
    @@ (<<Lib, CompA, CompX>> :> HostUnitFile(<<1>>))
    @@ (<<Lib, CompA, CompY>> :> HostUnitFile(<<2>>))
    @@ (<<Lib, CompB>> :> HostDir)
    @@ (<<Lib, CompB, CompA>> :> HostDir)
    @@ (<<Lib, CompB, CompX>> :> HostUnitFile(<<3>>))
    @@ (<<Lib, CompB, CompY>> :> HostLink(<<Lib, CompA, CompX>>))
    @@ (<<Lib, CompX>> :> HostDir)
    @@ (<<Lib, CompY>> :> HostUnitFile(<<4>>))

\* the four of the host and /lib/l1, which is not there
UcodePaths ==
    {<<Lib, CompA>>, <<Lib, CompB>>, <<Lib, CompX>>, <<Lib, CompY>>, <<Lib, NameL1>>}

\* The orders in which the host may hand out the entries of a directory.
Listings(S) ==
    {s \in [1..Cardinality(S) -> S] : \A i, j \in DOMAIN s : s[i] = s[j] => i = j}

InitUcode ==
    /\ vfs = MicrocodeBundleNew.vfs
    /\ last = NoCall
    /\ vfsB = VfsNew
    /\ handed = <<>>
    /\ orderB = <<>>
    /\ ser = None
    /\ serB = None
    /\ host = [NoHost EXCEPT !.fs = UcodeFs]
    /\ stack = <<>>
    /\ call = NoBuilderCall
    /\ inserted = <<>>
    /\ bundle = MicrocodeBundleNew.bundle
    /\ conf = NoConf
    /\ run = NoRun

UcodeCall(op, path, r) ==
    /\ vfs' = r.vfs
    /\ bundle' = r.bundle
    /\ call' = [op |-> op, arg |-> Some(path), res |-> r.res, read |-> r.read]
    /\ UNCHANGED <<last, vfsB, handed, orderB, ser, serB, host, stack, inserted,
                   conf, run>>

AddAmdUcode ==
    \E path \in UcodePaths :
        \E listing \in Listings(read_dir(host, path)) :
            UcodeCall("add_amd_ucode", path, add_amd_ucode(host, bundle, vfs, path, listing))

AddIntelUcode ==
    \E path \in UcodePaths :
        \E listing \in Listings(read_dir(host, path)) :
            UcodeCall("add_intel_ucode", path,
                      add_intel_ucode(host, bundle, vfs, path, listing))

NextUcode == AddAmdUcode \/ AddIntelUcode

SpecUcode == InitUcode /\ [][NextUcode]_vars

AmdFile == UCODE_TREE \o <<AMD_UCODE_NAME>>
IntelFile == UCODE_TREE \o <<INTEL_UCODE_NAME>>

\* C28: the Vfs of a MicrocodeBundle holds /kernel, /kernel/x86 and
\* /kernel/x86/microcode as directories and beneath them nothing but the
\* file of each vendor, which is there exactly when the vendor's flag is set;
\* a call for a vendor whose flag is set returns Ok, reads nothing and changes
\* nothing.
C28_MicrocodeBundle ==
    /\ [](/\ \A k \in 0..Len(UCODE_TREE) : contains_dir(vfs, SubSeq(UCODE_TREE, 1, k))
          /\ DOMAIN vfs \subseteq ancestors(UCODE_TREE) \cup {AmdFile, IntelFile}
          /\ bundle.amd <=> contains_file(vfs, AmdFile)
          /\ bundle.intel <=> contains_file(vfs, IntelFile))
    /\ [][(\/ call'.op = "add_amd_ucode" /\ bundle.amd
           \/ call'.op = "add_intel_ucode" /\ bundle.intel) =>
            /\ call'.res = "Ok" /\ ~call'.read
            /\ vfs' = vfs /\ bundle' = bundle]_vars

\* C28's case: both vendors are bundled, and the call made last was one for
\* a vendor whose flag was set.
C28_Witness ==
    /\ bundle.amd /\ bundle.intel
    /\ call.op = "add_amd_ucode" /\ call.res = "Ok" /\ ~call.read
    /\ vfs[AmdFile].data = Some(<<2, 1>>)

\* C27 as stated: Unit::from_name never ends the program: for a unit file
\* the parser accepts it returns a Unit, with no binaries when [Service] has
\* no ExecStart and no dependencies when there is no Requires or no [Unit].
C27_FromNameAsStated == IsUnitCall => call.res # "Panic"

----------------------------------------------------------------------------
(* cli.rs, io.rs, encoder.rs: a run of the command line *)

\* The capacity of the BufWriter, scaled down from the 8192 bytes of std.
BufCap == 2

\* The destination takes bytes until it has room for no more (a full disk, a
\* closed pipe); a write beyond that fails after the bytes that fit.
\* d = [written, buf, room]: the bytes the destination has taken, the bytes
\* held by the BufWriter, the room of the destination.
dest_write_all(d, n) ==
    IF d.written + n <= d.room
    THEN [d |-> [d EXCEPT !.written = d.written + n], res |-> "Ok"]
    ELSE [d |-> [d EXCEPT !.written = d.room], res |-> "InputOutput"]

\* BufWriter::flush_buf: what is buffered goes to the destination.
flush_buf(d) ==
    LET w == dest_write_all(d, d.buf)
    IN  [d |-> [w.d EXCEPT !.buf = d.buf - (w.d.written - d.written)], res |-> w.res]

\* BufWriter::write_all: n bytes that fit are buffered; otherwise the buffer
\* is flushed first, and n bytes that are no less than the capacity go
\* straight to the destination.
write_all(d, n) ==
    LET f == IF d.buf + n > BufCap THEN flush_buf(d) ELSE [d |-> d, res |-> "Ok"]
    IN  IF f.res # "Ok" THEN f
        ELSE IF n >= BufCap THEN dest_write_all(f.d, n)
        ELSE [d |-> [f.d EXCEPT !.buf = f.d.buf + n], res |-> "Ok"]

\* The BufWriter is dropped: it flushes and discards the result.
drop_out(d) == flush_buf(d).d

\* Encoder::encode followed by the drop of out, which encode owns.  The
\* encoder hands k1 bytes to out while it is written to and k2 when it is
\* finished.  None writes the data as they are; the GzEncoder is finished
\* by its drop, which discards the result; the zstd encoder is finished by
\* finish()?.
encode_nodrop(encoder, d, k1, k2) ==
    LET w == write_all(d, k1)
        fin == write_all(w.d, k2)
    IN  IF encoder = "None"
        THEN write_all(d, k1 + k2)
        ELSE IF w.res # "Ok" THEN w
        ELSE IF encoder = "Gzip" THEN [d |-> fin.d, res |-> "Ok"]
        ELSE fin

encode(encoder, d, k1, k2) ==
    LET r == encode_nodrop(encoder, d, k1, k2)
    IN  [d |-> drop_out(r.d), res |-> r.res]

\* The arguments and the host of a run: the command, the encoder, whether
\* everything up to Archive::serialize succeeds, what the output path is,
\* whether --ucode is given and found, the bytes of the microcode file and
\* of the encoded archive, the room of the destination.
RunArgs ==
    [command : {"initramfs", "microcode"},
     encoder : {"None", "Gzip", "Zstd"},
     build : {"Ok", "Err"},
     output : {"stdout", "file", "noparent", "nocreate"},
     ucode : {"none", "missing", "file"},
     ucodelen : {1, 3},
     k1 : {0, 1, 3},
     k2 : {1},
     room : {0, 2, 8}]

InitDriver ==
    /\ vfs = VfsNew
    /\ last = NoCall
    /\ vfsB = VfsNew
    /\ handed = <<>>
    /\ orderB = <<>>
    /\ ser = None
    /\ serB = None
    /\ host = NoHost
    /\ stack = <<>>
    /\ call = NoBuilderCall
    /\ inserted = <<>>
    /\ bundle = NoBundle
    /\ conf = NoConf
    /\ \E a \in RunArgs :
        /\ a.command = "microcode" => a.ucode = "none"
        /\ a.ucode # "file" => a.ucodelen = 1
        /\ run = [pc |-> "build", args |-> a, res |-> "Running", created |-> FALSE,
                  d |-> [written |-> 0, buf |-> 0, room |-> a.room]]

DriverFrame ==
    UNCHANGED <<vfs, last, vfsB, handed, orderB, ser, serB, host, stack, call,
                inserted, bundle, conf>>

Fail(kind) == [run EXCEPT !.pc = "done", !.res = kind]

\* The configuration is read, the Vfs built and the archive serialized
\* (cli.rs:114-161, 182-193).
Build ==
    /\ run.pc = "build"
    /\ run' = IF run.args.build = "Ok" THEN [run EXCEPT !.pc = "open"] ELSE Fail("Err")
    /\ DriverFrame

\* Output::from_path: standard output for "-", else File::create when the
\* parent of the path exists.
OpenOutput ==
    /\ run.pc = "open"
    /\ run' =
        IF run.args.output \in {"noparent", "nocreate"} THEN Fail("InputOutput")
        ELSE [run EXCEPT !.created = (run.args.output = "file"),
                         !.pc = IF run.args.command = "initramfs" /\ run.args.ucode # "none"
                                THEN "ucode" ELSE "encode"]
    /\ DriverFrame

\* Input::from_path of the microcode file and io::copy into the output
\* (cli.rs:169-176).
CopyUcode ==
    /\ run.pc = "ucode"
    /\ LET w == write_all(run.d, run.args.ucodelen)
       IN  run' =
            IF run.args.ucode = "missing" THEN Fail("NotFound")
            ELSE IF w.res # "Ok" THEN [Fail(w.res) EXCEPT !.d = drop_out(w.d)]
            ELSE [run EXCEPT !.d = w.d, !.pc = "encode"]
    /\ DriverFrame

\* encoder.encode(&serialized, output)?, and the return of elusive.
Encode ==
    /\ run.pc = "encode"
    /\ LET r == encode(run.args.encoder, run.d, run.args.k1, run.args.k2)
       IN  run' = [run EXCEPT !.d = r.d, !.pc = "done", !.res = r.res]
    /\ DriverFrame

NextDriver == Build \/ OpenOutput \/ CopyUcode \/ Encode

SpecDriver == InitDriver /\ [][NextDriver]_vars

\* C23 as stated: the output is opened only after the Vfs is built and
\* serialized, and a run that ends in an error has written nothing and has
\* neither created nor truncated the output file.
C23_NoPartialOutputAsStated ==
    /\ (run.created \/ run.d.written > 0) => run.args.build = "Ok" /\ run.pc # "build"
    /\ (run.pc = "done" /\ run.res # "Ok") => ~run.created /\ run.d.written = 0

\* C24 as stated: a run returns success only if the destination has taken
\* every byte of the microcode prefix and of the encoded archive.
C24_WriteErrorsAsStated ==
    (run.pc = "done" /\ run.res = "Ok") =>
        run.d.written =
            (IF run.args.ucode = "file" THEN run.args.ucodelen ELSE 0)
            + run.args.k1 + run.args.k2

----------------------------------------------------------------------------
(* initramfs.rs: whole calls, and from_config *)

InitName == <<105, 110, 105, 116>>                \* "init"
ShutdownName == <<115, 104, 117, 116, 100, 111, 119, 110>>\* "shutdown"

\* add_entrypoint
add_entrypoint(h, v, name, path) ==
    IF contains(v, <<name>>) THEN Ok(v)
    ELSE IF ~exists(h, path) THEN Err(v, "NotFound")
    ELSE create_entry(v, <<name>>, open(h, path))

\* The value of a set of one element. A call's result is named by binding
\* it in such a set, so that it is a value where it is used.
The(S) == CHOOSE x \in S : TRUE

\* add_elf with the calls it makes for the libraries, to its return.
RECURSIVE run_elf(_, _, _)
RECURSIVE run_elf_libs(_, _, _)
run_elf(h, v, arg) ==
    The({IF r.res = "Descend" THEN run_elf_libs(h, r.vfs, r.todo)
         ELSE [vfs |-> r.vfs, res |-> r.res]
         : r \in {add_elf(h, v, arg)}})

run_elf_libs(h, v, libs) ==
    IF libs = <<>> THEN Ok(v)
    ELSE The({IF r.res # "Ok" THEN r ELSE run_elf_libs(h, r.vfs, Tail(libs))
              : r \in {run_elf(h, v, AbsPath(Head(libs)))}})

\* add_module for the module a lookup gave, with the calls it makes for the
\* dependencies, to its return; depth is the number of calls the stack
\* still holds.
RECURSIVE run_module(_, _, _, _)
RECURSIVE run_module_deps(_, _, _, _)
run_module(h, v, l, depth) ==
    IF l.res # "Ok" THEN Err(v, l.res)
    ELSE The({IF e.res = "Ok" THEN Ok(v)
              ELSE IF e.res # "Descend" THEN Err(v, e.res)
              ELSE IF depth = 0 THEN Err(v, "StackOverflow")
              ELSE The({IF deps.res # "Ok" THEN deps
                        ELSE add_module_install(h, deps.vfs, l.module)
                        : deps \in {run_module_deps(h, v, e.todo, depth - 1)}})
              : e \in {add_module(h, l.module)}})

run_module_deps(h, v, names, depth) ==
    IF names = <<>> THEN Ok(v)
    ELSE The({IF r.res # "Ok" THEN r
              ELSE run_module_deps(h, r.vfs, Tail(names), depth)
              : r \in {run_module(h, v, module_from_name(h, Head(names)), depth)}})

\* The loop of add_systemd_unit over the binaries.
RECURSIVE run_unit_binaries(_, _, _)
run_unit_binaries(h, v, binaries) ==
    IF binaries = <<>> THEN Ok(v)
    ELSE The({IF r.res # "Ok" THEN r
              ELSE run_unit_binaries(h, r.vfs, Tail(binaries))
              : r \in {run_elf(h, v, Head(binaries))}})

\* The symlink add_systemd_unit makes for a unit with an install path.
run_unit_link(v, unit, name) ==
    IF unit.install_path = None THEN Ok(v)
    ELSE add_symlink(v, unit.install_path[1],
                     [root |-> FALSE, comps |-> <<DotDot, name>>])

\* add_systemd_unit with the calls it makes, to its return.
RECURSIVE run_unit(_, _, _, _)
RECURSIVE run_unit_deps(_, _, _, _)
run_unit(h, v, name, depth) ==
    The({IF r.res # "Descend" THEN [vfs |-> r.vfs, res |-> r.res]
         ELSE IF depth = 0 THEN Err(v, "StackOverflow")
         ELSE The({IF bins.res # "Ok" THEN bins
                   ELSE The({IF link.res # "Ok" THEN link
                             ELSE run_unit_deps(h, link.vfs, r.unit.dependencies,
                                                depth - 1)
                             : link \in {run_unit_link(bins.vfs, r.unit, name)}})
                   : bins \in {run_unit_binaries(h, r.vfs, r.unit.binaries)}})
         : r \in {add_systemd_unit(h, v, name)}})

run_unit_deps(h, v, names, depth) ==
    IF names = <<>> THEN Ok(v)
    ELSE The({IF r.res # "Ok" THEN r
              ELSE run_unit_deps(h, r.vfs, Tail(names), depth)
              : r \in {run_unit(h, v, Head(names), depth)}})

\* The Kmod of from_config (initramfs.rs:128-139): Kmod::with_directory of
\* settings.kernel_module_path, which has to exist and to hold kernel/, or
\* Kmod::new.
kmod_from_settings(h, kernel_module_path) ==
    IF kernel_module_path = None THEN "Ok"
    ELSE IF ~exists(h, kernel_module_path[1]) THEN "NotFound"
    ELSE IF ~exists(h, kernel_module_path[1] \o <<KernelComp>>) THEN "BadDirectory"
    ELSE "Ok"

\* One call of the builder, to its return.
run_call(h, v, c) ==
    IF c.op = "add_init" THEN add_entrypoint(h, v, InitName, c.arg)
    ELSE IF c.op = "add_shutdown" THEN add_entrypoint(h, v, ShutdownName, c.arg)
    ELSE IF c.op = "add_elf" THEN run_elf(h, v, c.arg)
    ELSE IF c.op = "add_files" THEN add_files(h, v, c.arg.sources, c.arg.destination)
    ELSE IF c.op = "add_symlink" THEN add_symlink(v, c.arg.path, c.arg.target)
    ELSE IF c.op = "add_module_from_name"
    THEN run_module(h, v, module_from_name(h, c.arg), MaxDepth)
    ELSE IF c.op = "add_module_from_path"
    THEN run_module(h, v, module_from_path(h, c.arg), MaxDepth)
    ELSE IF c.op = "add_systemd_unit" THEN run_unit(h, v, c.arg, MaxDepth)
    ELSE [vfs |-> v, res |-> kmod_from_settings(h, c.arg)]

\* Calls one after the other; the first that fails ends them (the ? operator).
RECURSIVE run_calls(_, _, _)
run_calls(h, v, calls) ==
    IF calls = <<>> THEN Ok(v)
    ELSE The({IF r.res # "Ok" THEN r ELSE run_calls(h, r.vfs, Tail(calls))
              : r \in {run_call(h, v, Head(calls))}})

Calls(op, args) == [i \in DOMAIN args |-> [op |-> op, arg |-> args[i]]]

KernelModuleCalls(kernel_modules) ==
    [i \in DOMAIN kernel_modules |->
        [op |-> IF kernel_modules[i].kind = "Name" THEN "add_module_from_name"
                ELSE "add_module_from_path",
         arg |-> kernel_modules[i].value]]

\* A body of the loop over the modules that installs the symlinks before
\* the binaries and the files.
module_calls_symlinks_first(module) ==
    Calls("add_symlink", module.symlinks)
    \o Calls("add_elf", module.binaries)
    \o Calls("add_files", module.files)
    \o KernelModuleCalls(module.kernel_modules)
    \o Calls("add_systemd_unit", module.units)

\* The body of the loop of from_config over the modules
\* (initramfs.rs:141-168): the calls it makes for one module.
module_calls(module) ==
    Calls("add_elf", module.binaries)
    \o Calls("add_files", module.files)
    \o Calls("add_symlink", module.symlinks)
    \o KernelModuleCalls(module.kernel_modules)
    \o Calls("add_systemd_unit", module.units)

RECURSIVE config_modules(_, _, _)
config_modules(h, v, modules) ==
    IF modules = <<>> THEN Ok(v)
    ELSE The({IF r.res # "Ok" THEN r ELSE config_modules(h, r.vfs, Tail(modules))
              : r \in {run_calls(h, v, module_calls(Head(modules)))}})

\* Initramfs::from_config
from_config(h, config) ==
    The({IF i.res # "Ok" THEN i
         ELSE The({IF s.res # "Ok" THEN s
                   ELSE The({IF kmod # "Ok" THEN Err(s.vfs, kmod)
                             ELSE config_modules(h, s.vfs, config.modules)
                             : kmod \in {kmod_from_settings(
                                            h, config.settings.kernel_module_path)}})
                   : s \in {IF config.shutdown = None THEN Ok(i.vfs)
                            ELSE add_entrypoint(h, i.vfs, ShutdownName,
                                                config.shutdown[1])}})
         : i \in {add_entrypoint(h, InitramfsNew, InitName, config.init)}})

----------------------------------------------------------------------------
(* from_config on a host with binaries, kernel modules and unit files *)

\* ma depends on mb; u1.service runs /usr/bin/b and requires u2.service.
ConfigHost ==
    [NoHost EXCEPT
        !.fs = UnitFs @@ KmodFs,
        !.needed = UnitNeeded,
        !.release = Release,
        !.lookup = KmodLookup,
        !.frompath = KmodFromPath,
        !.modinfo =
            (NameMa :> [depends |-> <<NameMb>>, softpre |-> <<>>, softpost |-> <<>>])
            @@ (NameMb :> [depends |-> <<>>, softpre |-> <<>>, softpost |-> <<>>])
            @@ (NameMx :> [depends |-> <<>>, softpre |-> <<>>, softpost |-> <<>>]),
        !.decoded = (ZstdMb :> PlainMb),
        !.units = (HostU1 :> ServiceUnit(<<<<NameSlice, NameU2>>>>))
                  @@ (HostU2 :> ("Unit" :> ("Description" :> <<<<>>>>)))]

NoItems ==
    [binaries |-> <<>>, files |-> <<>>, symlinks |-> <<>>, kernel_modules |-> <<>>,
     units |-> <<>>]

\* The modules of the configurations: the binary b; /usr/bin/b as a file
\* and a symlink to it; the kernel module ma and the unit u1.service; the
\* kernel module /opt/mx.ko; a binary that is not on the host.
ConfigModules ==
    {[NoItems EXCEPT !.binaries = <<[root |-> FALSE, comps |-> <<CompB>>]>>],
     [NoItems EXCEPT
        !.files = <<[sources |-> <<HostB>>, destination |-> <<Usr, Bin>>]>>,
        !.symlinks = <<[path |-> <<CompA>>, target |-> AbsPath(HostB)]>>],
     [NoItems EXCEPT !.kernel_modules = <<[kind |-> "Name", value |-> NameMa]>>,
                     !.units = <<NameU1>>],
     [NoItems EXCEPT !.kernel_modules = <<[kind |-> "Path", value |-> HostMx]>>],
     [NoItems EXCEPT !.binaries = <<AbsPath(<<Usr, Bin, NameL3>>)>>]}

\* Configurations of no, one or two modules; the kernel module directory is
\* not set, the host's, a directory without kernel/, or missing.
Configs ==
    [init : {HostL2, <<Usr, Bin, NameL3>>},
     shutdown : {None, Some(HostL2)},
     settings : [kernel_module_path :
                    {None, Some(KmodDir), Some(<<Opt>>), Some(<<Opt, NameZz>>)}],
     modules : {<<>>} \cup {<<m>> : m \in ConfigModules}
               \cup {<<m, n>> : m \in ConfigModules, n \in ConfigModules}]

InitConfig ==
    /\ vfs = InitramfsNew
    /\ last = NoCall
    /\ vfsB = VfsNew
    /\ handed = <<>>
    /\ orderB = <<>>
    /\ ser = None
    /\ serB = None
    /\ host = ConfigHost
    /\ stack = <<>>
    /\ call = NoBuilderCall
    /\ inserted = <<>>
    /\ bundle = NoBundle
    /\ conf = NoConf
    /\ run = NoRun

\* The call of Initramfs::from_config, which a run makes once; the builder
\* it returns is in vfs.
FromConfig ==
    \E config \in Configs :
        LET r == from_config(host, config)
        IN  /\ conf.config = None
            /\ vfs' = r.vfs
            /\ conf' = [config |-> Some(config), todo |-> <<>>, res |-> r.res]
            /\ UNCHANGED <<last, vfsB, handed, orderB, ser, serB, host, stack, call,
                           inserted, bundle, run>>

NextConfig == FromConfig

SpecConfig == InitConfig /\ [][NextConfig]_vars

\* The calls the claim lists for a module, in its order.
RECURSIVE ListedCalls(_)
ListedCalls(modules) ==
    IF modules = <<>> THEN <<>>
    ELSE Calls("add_elf", Head(modules).binaries)
         \o Calls("add_files", Head(modules).files)
         \o Calls("add_symlink", Head(modules).symlinks)
         \o KernelModuleCalls(Head(modules).kernel_modules)
         \o Calls("add_systemd_unit", Head(modules).units)
         \o ListedCalls(Tail(modules))

EntryCalls(config) ==
    <<[op |-> "add_init", arg |-> config.init]>>
    \o (IF config.shutdown = None THEN <<>>
        ELSE <<[op |-> "add_shutdown", arg |-> config.shutdown[1]]>>)

\* The outcome of from_config is that of the calls made by hand on a fresh
\* builder: both succeed or both fail, and with the same archive.
SameOutcome(calls) ==
    LET byhand == run_calls(host, InitramfsNew, calls)
    IN  /\ conf.res = "Ok" <=> byhand.res = "Ok"
        /\ conf.res = "Ok" => ArchiveFrom(vfs) = ArchiveFrom(byhand.vfs)

\* C21 as stated: from_config gives the archive of a fresh builder on which
\* add_init, add_shutdown and then, module by module, the calls for the
\* binaries, files, symlinks, kernel modules and units are made, and it fails
\* exactly when one of these calls fails.
C21_FromConfigAsStated ==
    conf.config # None =>
        SameOutcome(EntryCalls(conf.config[1]) \o ListedCalls(conf.config[1].modules))

\* C21 amended: between add_shutdown and the calls for the modules
\* from_config creates the Kmod from settings.kernel_module_path, and it
\* fails exactly when that fails or one of the calls fails.
C21_FromConfig ==
    conf.config # None =>
        SameOutcome(EntryCalls(conf.config[1])
                    \o <<[op |-> "kmod", arg |-> conf.config[1].settings.kernel_module_path]>>
                    \o ListedCalls(conf.config[1].modules))

\* C21's case: from_config has returned a builder for two modules, the
\* second with a symlink whose target the first has installed.
C21_Witness ==
    /\ conf.config # None /\ conf.res = "Ok"
    /\ Len(conf.config[1].modules) = 2
    /\ conf.config[1].modules[2].symlinks # <<>>
    /\ conf.config[1].settings.kernel_module_path = Some(KmodDir)
    /\ contains(vfs, HostB) /\ ~contains(vfs, <<CompA>>)

\* The orders of n calls.
Orders(n) == {s \in [1..n -> 1..n] : \A i, j \in 1..n : s[i] = s[j] => i = j}

\* C22 as stated: the calls of a configuration give the same archive in
\* every order in which they all succeed.
C22_AnyOrderAsStated ==
    (conf.config # None /\ conf.res = "Ok") =>
        LET calls == ListedCalls(conf.config[1].modules)
            start == run_calls(host, InitramfsNew, EntryCalls(conf.config[1]))
        IN  \A s \in Orders(Len(calls)) :
                LET r == run_calls(host, start.vfs, [i \in 1..Len(calls) |-> calls[s[i]]])
                IN  r.res = "Ok" => ArchiveFrom(r.vfs) = ArchiveFrom(vfs)

====
